---- MODULE Spec2Model ----
(***************************************************************************)
(* faktoor.js: the client facade (MailClient / withRetry / getDelay), the  *)
(* Gmail backend's HTTP boundary (GmailApi.request / handleError), its     *)
(* connection lifecycle (GmailProvider.connect / GmailApi.init), the lazy  *)
(* stream generator (GmailProvider.stream), the Gmail translator           *)
(* (parseGmailMessage) and the parser package's address functions.         *)
(***************************************************************************)
EXTENDS Integers, Sequences, FiniteSets, TLC

\* Largest `attempts` value of a retry configuration that is explored.
MaxAttempts == 3

(***************************************************************************)
(* Error taxonomy (packages/core/src/errors.ts).  An error value is a      *)
(* record; `retryable` is "true", "false" or "absent" (the property does   *)
(* not exist on the value), `isError` is `value instanceof Error`, `cause` *)
(* is <<>> or <<the wrapped error>>, and `inv` is the number of the        *)
(* provider invocation that raised it (the identity of the value).         *)
(***************************************************************************)
Undefined == -1

NoError ==
  [name |-> "undefined", code |-> "none", retryable |-> "absent",
   retryAfter |-> Undefined, cause |-> <<>>, isError |-> FALSE, inv |-> 0]

FaktoorError(name, code, retryable, retryAfter, cause, inv) ==
  [name |-> name, code |-> code,
   retryable |-> IF retryable THEN "true" ELSE "false",
   retryAfter |-> retryAfter, cause |-> cause, isError |-> TRUE, inv |-> inv]

AuthenticationError(inv) ==
  FaktoorError("AuthenticationError", "AUTH_ERROR", FALSE, Undefined, <<>>, inv)

RateLimitError(retryAfter, inv) ==
  FaktoorError("RateLimitError", "RATE_LIMIT", TRUE, retryAfter, <<>>, inv)

NotFoundError(inv) ==
  FaktoorError("NotFoundError", "NOT_FOUND", FALSE, Undefined, <<>>, inv)

NetworkError(cause, inv) ==
  FaktoorError("NetworkError", "NETWORK_ERROR", TRUE, Undefined, <<cause>>, inv)

ProviderError(retryable, inv) ==
  FaktoorError("ProviderError", "PROVIDER_ERROR", retryable, Undefined, <<>>, inv)

\* An error raised by the runtime or by unrelated code: an Error instance
\* without a `retryable` property (TypeError of fetch, SyntaxError of json()).
PlainError(name, inv) ==
  [name |-> name, code |-> "none", retryable |-> "absent",
   retryAfter |-> Undefined, cause |-> <<>>, isError |-> TRUE, inv |-> inv]

(***************************************************************************)
(* State.                                                                  *)
(*   retry        MailConfig.retry as passed to createMail                 *)
(*   retryConfig  MailClient.retryConfig: enabled = FALSE is `false`       *)
(*   provider     "mock" (a provider whose operations settle arbitrarily,  *)
(*                as the test suite's mock) or "gmail" (GmailProvider)     *)
(*   op           the facade operation of the call                         *)
(*   pc           position of the facade call inside withRetry             *)
(*   attempt      withRetry's loop counter                                 *)
(*   lastError    withRetry's lastError                                    *)
(*   outcome      "pending", "resolved" or "rejected"                      *)
(*   value        number of the invocation whose value the call resolved   *)
(*                with (0: none)                                           *)
(*   rejection    the value the call rejected with                         *)
(*   invocations  number of times the provider operation was invoked       *)
(*   log          how each settled invocation of the provider operation     *)
(*                ended                                                    *)
(*   sleeps       number of sleep() calls made by withRetry                *)
(*   httpRequests number of fetch() calls issued by GmailApi.request       *)
(*   accepted     number of times the backend processed the request        *)
(***************************************************************************)
VARIABLES retry, retryConfig, provider, op, pc, attempt, lastError, outcome, value,
          rejection, invocations, log, sleeps, httpRequests, accepted

\* State of one iteration of MailClient.stream over GmailProvider.stream.
\*   pageSizes    the backend's result: the number of messages of each page of
\*                the token chain (page p carries a continuation token iff it
\*                is not the last)
\*   gen          the generator: "notStarted", "suspended" (at its yield), "done"
\*   pageNo, itemNo  the page and the item the generator is suspended at
\*   pageToken    the generator's pageToken
\*   listReqs     the page tokens of the messages.list requests issued
\*   detailReqs   the ids of the messages.get requests issued
\*   delivered    the ids of the items handed to the consumer
\*   nextCalls    next() calls of the consumer that resumed the generator
\*   lateCalls    next() calls made after the sequence was over
\*   streamCalls  number of provider.stream() calls
\*   consumer     "iterating", "stopped" (it returned early), "ended" (the
\*                sequence completed) or "failed" (next() rejected)
\*   providerError, streamError  the error the provider's sequence raised and
\*                the one the consumer received
VARIABLES pageSizes, gen, pageNo, itemNo, pageToken, listReqs, detailReqs,
          delivered, nextCalls, lateCalls, streamCalls, consumer,
          providerError, streamError

streamVars == <<pageSizes, gen, pageNo, itemNo, pageToken, listReqs, detailReqs,
                delivered, nextCalls, lateCalls, streamCalls, consumer,
                providerError, streamError>>

\* pageToken undefined
NoToken == 0

\* State of one MailClient.watch call.
\*   hasWatch       the provider has a `watch` method
\*   watchOptions   the options the caller passed
\*   watchArgs      the options provider.watch received
\*   providerHandle the handle provider.watch returned
\*   handle         the handle MailClient.watch returned
\*   errorNames     the provider name the thrown error's message carries
VARIABLES hasWatch, watchOptions, watchArgs, providerHandle, handle, errorNames

watchVars == <<hasWatch, watchOptions, watchArgs, providerHandle, handle, errorNames>>

\* State of one GmailProvider instance used by concurrent callers.
\*   optionsKind   "oauth" or "serviceAccount" (GmailOptions)
\*   keyValid      the service account's private_key can be imported
\*   accessToken   GmailApi.accessToken (0: the empty string)
\*   expiresAt     GmailApi.expiresAt (Undefined or a clock value)
\*   now           the clock
\*   connected     GmailProvider.connected
\*   callerPc      per caller: "idle", "token" (token request in flight),
\*                 "request" (API request in flight) or "done"
\*   callerOp      per caller: the provider method of its current call
\*   callerResult  per caller: how its last call left the provider
\*   callerCalls   provider calls started so far
\*   tokenFetches  token requests sent so far
\*   lastLifecycle  the lifecycle call started last: "none", "connect" or "disconnect"
VARIABLES optionsKind, keyValid, accessToken, expiresAt, now, connected,
          callerPc, callerOp, callerResult, callerCalls, tokenFetches, lastLifecycle

connectVars == <<optionsKind, keyValid, accessToken, expiresAt, now, connected,
                 callerPc, callerOp, callerResult, callerCalls, tokenFetches, lastLifecycle>>

\* State of several facade calls issued independently on one client; each
\* runs its own withRetry.
\*   callPc          per call: "idle", "inflight", "sleeping" or "done"
\*   callAttempt     per call: withRetry's loop variable
\*   callLastError   per call: withRetry's lastError
\*   callRejection   per call: what the call's promise was rejected with
\*   callOutcome     per call: "pending", "resolved" or "rejected"
\*   callInFlight    per call: provider invocations started and not settled
\*   callInvocations per call: provider invocations started
\*   callSleeps      per call: sleeps begun
\*   issued          the calls in the order they were issued
\*   completed       the calls in the order their promises settled
VARIABLES callPc, callAttempt, callLastError, callRejection, callOutcome,
          callInFlight, callInvocations, callSleeps, issued, completed

callsVars == <<callPc, callAttempt, callLastError, callRejection, callOutcome,
               callInFlight, callInvocations, callSleeps, issued, completed>>

\* State of the waits of one retried call.
\*   backoff       RetryConfig.backoff
\*   initialDelay  RetryConfig.initialDelay (ms)
\*   maxDelay      RetryConfig.maxDelay (ms)
\*   failed        attempts that have failed so far
\*   delays        the values getDelay returned, in 1/DelayScale ms
VARIABLES backoff, initialDelay, maxDelay, failed, delays

backoffVars == <<backoff, initialDelay, maxDelay, failed, delays>>

\* State of one translation of a Gmail message (parseGmailMessage).
\*   labelIds    message.labelIds, in the order the API lists them
\*   payload     message.payload, the root of the part tree
\*   translated  parseGmailMessage has run
\*   email       the label-derived fields of the Email it returned
\*   body        Email.body as extractBody returned it
\*   attachments Email.attachments, in the order they were recorded
\*   hasAtob     the runtime defines a global atob
VARIABLES labelIds, payload, translated, email, body, attachments, hasAtob

translateVars == <<labelIds, payload, translated, email, body, attachments, hasAtob>>

\* State of one round trip through the parser package's address functions.
\*   address    the Address given to formatAddress
\*   formatted  the string formatAddress returned
\*   parsed     the Address parseAddress returned for it
\*   addressPc  "input", "formatted" or "parsed"
VARIABLES address, formatted, parsed, addressPc

addressVars == <<address, formatted, parsed, addressPc>>

\* State of the parsing of one address-list header.
\*   listElements  the addresses the header was written from
\*   rawList       the header value
\*   parserList    what parseAddressList (parser package) returned
\*   gmailList     what parseAddresses (Gmail translator) returned
\*   listParsed    which of the two have run
VARIABLES listElements, rawList, parserList, gmailList, listParsed

listVars == <<listElements, rawList, parserList, gmailList, listParsed>>

\* State of one base64url round trip through the parser package.
\*   codecText  the string given to encodeBase64Url, as UTF-16 code units
\*   hasBtoa    the runtime defines a global btoa
\*   codecAtob  the runtime defines a global atob
\*   encoded    what encodeBase64Url returned
\*   decoded    what decodeBase64Url returned for it
\*   codecPc    "input", "encoded" or "decoded"
VARIABLES codecText, hasBtoa, codecAtob, encoded, decoded, codecPc

codecVars == <<codecText, hasBtoa, codecAtob, encoded, decoded, codecPc>>

\* State of one GmailProvider.send.
\*   sendOptions  the SendOptions given to send
\*   envelope     the lines encodeEmail joined into the message it encoded
\*   boundary     the multipart boundary encodeEmail drew, "" when it drew none
\*   sendPc       "idle", "sending" (messages.send in flight) or "done"
\*   sendResult   "none", "success" (a SendResult was returned) or "failure"
VARIABLES sendOptions, envelope, boundary, sendPc, sendResult

sendVars == <<sendOptions, envelope, boundary, sendPc, sendResult>>

\* State of one message on the backend and of a move followed by a get.
\*   mailLabels      the labelIds the backend returns for the message, in order
\*   moveFolder      the folder given to move
\*   modifyRequests  the bodies of the modify requests issued so far
\*   movePc          "idle", "modifying", "moved", "failed" or "read"
\*   gotFolder       the folder of the Email a later get returned, "" before
VARIABLES mailLabels, moveFolder, modifyRequests, movePc, gotFolder

moveVars == <<mailLabels, moveFolder, modifyRequests, movePc, gotFolder>>

\* The state outside one facade call and one stream iteration.
restVars == <<watchVars, connectVars, callsVars, backoffVars, translateVars, addressVars,
             listVars,
             codecVars,
             sendVars,
             moveVars>>

retryVars == <<retry, retryConfig, provider, op, pc, attempt, lastError, outcome, value,
               rejection, invocations, log, sleeps, httpRequests, accepted>>

\* DEFAULT_RETRY.attempts
DefaultAttempts == 3

\* MailConfig.retry as the caller passes it: `false`, or a partial RetryConfig
\* that names `attempts` or leaves it out (`attempts` is not validated).
Absent == -2

RetryOptions ==
  {[off |-> TRUE, attempts |-> Absent]} \cup
  {[off |-> FALSE, attempts |-> n] : n \in {Absent} \cup 0..MaxAttempts}

\* Variant: `false` is merged over DEFAULT_RETRY like any other value.
MailClientConstructor_mergesFalse(r) ==
  [enabled |-> TRUE,
   attempts |-> IF r.attempts = Absent THEN DefaultAttempts ELSE r.attempts]

\* MailClient.constructor: retry === false keeps false, anything else is
\* merged over DEFAULT_RETRY.
MailClientConstructor(r) ==
  IF r.off
    THEN [enabled |-> FALSE, attempts |-> 0]
    ELSE [enabled |-> TRUE,
          attempts |-> IF r.attempts = Absent THEN DefaultAttempts
                       ELSE r.attempts]

Providers == {"mock", "gmail"}

\* Facade operations that make one backend request each on the Gmail backend.
Ops == {"send", "get", "markAsRead"}

(***************************************************************************)
(* GmailApi.request and GmailApi.handleError.                              *)
(***************************************************************************)
\* What the transport can do with one fetch():
\*   lost_request   the request never reached the backend, fetch rejects
\*   lost_response  the backend processed it, the response was lost, fetch rejects
\*   response       a response arrived (status, Retry-After header, body readable)
Statuses == {200, 204, 400, 401, 403, 404, 429, 500}

NoHeader == -1

\* Retry-After, in seconds, of a 429 response
RetryAfterHeaders == {NoHeader, 2}

\* The header is read for a 429 only and the body of a 2xx other than 204 only;
\* the outcomes are listed once each, with the unread parts left out.
Transports ==
  {[kind |-> k, status |-> 0, retryAfterHeader |-> NoHeader, bodyReadable |-> FALSE] :
      k \in {"lost_request", "lost_response"}} \cup
  {[kind |-> "response", status |-> s, retryAfterHeader |-> NoHeader, bodyReadable |-> FALSE] :
      s \in Statuses \ {429}} \cup
  {[kind |-> "response", status |-> 429, retryAfterHeader |-> h, bodyReadable |-> FALSE] :
      h \in RetryAfterHeaders} \cup
  {[kind |-> "response", status |-> 200, retryAfterHeader |-> NoHeader, bodyReadable |-> TRUE]}

\* response.ok
ResponseOk(status) == status >= 200 /\ status <= 299

\* The backend carried the request out (a 2xx response, or a response that was
\* produced and then lost on the way back).
BackendProcessed(t) ==
  t.kind = "lost_response" \/ (t.kind = "response" /\ ResponseOk(t.status))

handleError(t, inv) ==
  CASE t.status = 401 -> AuthenticationError(inv)
    [] t.status = 429 ->
         RateLimitError(IF t.retryAfterHeader # NoHeader
                          THEN t.retryAfterHeader * 1000 ELSE Undefined, inv)
    [] t.status = 403 -> AuthenticationError(inv)
    [] t.status = 404 -> ProviderError(FALSE, inv)
    [] OTHER -> ProviderError(t.status >= 500, inv)

\* `error instanceof FaktoorApiError`: FaktoorApiError is a class local to the
\* API module that no error of the taxonomy extends.
InstanceOfFaktoorApiError(e) == e.name = "FaktoorApiError"

\* The catch clause of request.
requestCatch(e, inv) ==
  IF InstanceOfFaktoorApiError(e) THEN e ELSE NetworkError(e, inv)

\* How a request or a provider operation settles.
Resolved == [ok |-> TRUE, undefinedValue |-> FALSE, error |-> NoError]
ResolvedUndefined == [ok |-> TRUE, undefinedValue |-> TRUE, error |-> NoError]
Rejected(e) == [ok |-> FALSE, undefinedValue |-> FALSE, error |-> e]

\* request, from the fetch() on: how the call settles for a transport outcome.
request(t, inv) ==
  IF t.kind # "response"
    THEN Rejected(requestCatch(PlainError("TypeError", inv), inv))
  ELSE IF ~ResponseOk(t.status)
    THEN Rejected(requestCatch(handleError(t, inv), inv))
  ELSE IF t.status = 204
    THEN ResolvedUndefined
  ELSE IF ~t.bodyReadable
    THEN Rejected(requestCatch(PlainError("SyntaxError", inv), inv))
  ELSE Resolved

\* The GmailProvider operation around its one request: send reads result.id,
\* get raises NotFoundError for an empty message, markAsRead ignores the result.
gmailOperation(o, t, inv) ==
  LET r == request(t, inv) IN
  IF o = "disconnect" THEN Resolved
  ELSE IF ~r.ok \/ ~r.undefinedValue THEN r
  ELSE IF o = "send" THEN Rejected(PlainError("TypeError", inv))
  ELSE IF o = "get" THEN Rejected(NotFoundError(inv))
  ELSE Resolved

\* The entry the log keeps of an invocation that made no request.
NoTransport ==
  [kind |-> "none", status |-> 0, retryAfterHeader |-> NoHeader, bodyReadable |-> FALSE]

\* What can happen to the requests of a GmailProvider operation: disconnect
\* only clears the connected flag and makes none.
gmailTransports(o) == IF o = "disconnect" THEN {NoTransport} ELSE Transports

\* How one invocation of a mock provider's operation can settle: with a value,
\* or rejecting with any value (an Error or not, with or without `retryable`).
MockOutcomes(inv) ==
  {Resolved} \cup
  {Rejected([name |-> "MockError", code |-> "none", retryable |-> r,
             retryAfter |-> Undefined, cause |-> <<>>, isError |-> b, inv |-> inv]) :
      r \in {"true", "false", "absent"}, b \in BOOLEAN}

(***************************************************************************)
(* withRetry and the facade operations wrapped in it (MailClient.send,     *)
(* get, markAsRead, ...).                                                  *)
(***************************************************************************)
\* Variant: the fast path is never taken.
NonRetryable_never(e) == FALSE

\* Variant: an error without a `retryable` property counts as non-retryable.
NonRetryable_unlessMarked(e) == e.isError /\ e.retryable # "true"

\* error instanceof Error && 'retryable' in error && !error.retryable
NonRetryable(e) == e.isError /\ e.retryable # "absent" /\ e.retryable = "false"

\* Variant: a sleep follows the final attempt too.
SleepsAfter_always(a, config) == a < config.attempts

\* attempt < config.attempts - 1: a sleep follows the failed attempt
SleepsAfter(a, config) == a < config.attempts - 1

\* config === false: fn() is called directly
RetryDisabled(config) == ~config.enabled

\* Facade methods that do not go through withRetry.
UnwrappedOps == {"disconnect", "watch"}

\* Variant: every asynchronous facade method is wrapped in withRetry.
WrappedInRetry_every(o) == TRUE

\* The facade method passes its provider call to withRetry (connect, list, get,
\* send, the folder methods and the mutations do; disconnect calls the provider
\* directly).
WrappedInRetry(o) == o \notin UnwrappedOps

\* fn() is the whole call: no loop, no catch, no sleep.
CallsDirectly(config, o) == RetryDisabled(config) \/ ~WrappedInRetry(o)

\* The entry the log keeps of a settled invocation: how it ended and, on the
\* Gmail backend, what the transport did.
LogEntry(r, t) == [ok |-> r.ok, error |-> r.error, transport |-> t]

\* this.expiresAt && this.expiresAt < new Date()
TokenExpired(exp, clock) == exp # Undefined /\ exp < clock

\* fn() is called: the provider operation starts, and on the Gmail backend
\* runs up to its fetch(), which an expired token keeps it from reaching.
StartInvocation ==
  /\ invocations' = invocations + 1
  /\ httpRequests' = httpRequests +
       (IF provider = "gmail" /\ op \in Ops /\ ~TokenExpired(expiresAt, now) THEN 1 ELSE 0)
  /\ pc' = "inflight"

\* A facade operation is called: withRetry runs up to its first await.
FacadeCall ==
  /\ pc = "idle"
  /\ op # "watch"
  /\ IF CallsDirectly(retryConfig, op) \/ 0 < retryConfig.attempts
       THEN /\ StartInvocation
            /\ UNCHANGED <<outcome, rejection>>
       ELSE /\ pc' = "done"
            /\ outcome' = "rejected"
            /\ rejection' = lastError
            /\ UNCHANGED <<invocations, httpRequests>>
  /\ UNCHANGED <<retry, retryConfig, provider, op, attempt, lastError, value,
                 log, sleeps, accepted>>
  /\ UNCHANGED <<streamVars, restVars>>

\* The invocation in flight settles as r; withRetry runs on to its next await
\* or to its end.
Settle(r, t) ==
  /\ pc = "inflight"
  /\ log' = Append(log, LogEntry(r, t))
  /\ IF CallsDirectly(retryConfig, op)
       THEN /\ pc' = "done"
            /\ outcome' = IF r.ok THEN "resolved" ELSE "rejected"
            /\ value' = IF r.ok THEN invocations ELSE value
            /\ rejection' = r.error
            /\ UNCHANGED <<attempt, lastError, sleeps>>
     ELSE IF r.ok
       THEN /\ pc' = "done"
            /\ outcome' = "resolved"
            /\ value' = invocations
            /\ UNCHANGED <<attempt, lastError, rejection, sleeps>>
     ELSE /\ lastError' = r.error
          /\ IF NonRetryable(r.error)
               THEN /\ pc' = "done"
                    /\ outcome' = "rejected"
                    /\ rejection' = r.error
                    /\ UNCHANGED <<attempt, sleeps>>
             ELSE IF SleepsAfter(attempt, retryConfig)
               THEN /\ pc' = "sleeping"
                    /\ sleeps' = sleeps + 1
                    /\ UNCHANGED <<attempt, outcome, rejection>>
             ELSE /\ pc' = "done"
                  /\ attempt' = attempt + 1
                  /\ outcome' = "rejected"
                  /\ rejection' = lastError'
                  /\ UNCHANGED sleeps
          /\ UNCHANGED value
  /\ UNCHANGED <<retry, retryConfig, provider, op, invocations, httpRequests>>
  /\ UNCHANGED <<streamVars, restVars>>

\* An operation of the mock provider settles.
MockSettle ==
  /\ provider = "mock"
  /\ \E r \in MockOutcomes(invocations) : Settle(r, NoTransport)
  /\ UNCHANGED accepted

\* The transport settles the fetch() of the Gmail operation in flight.
GmailSettle ==
  /\ provider = "gmail"
  /\ ~TokenExpired(expiresAt, now)
  /\ \E t \in gmailTransports(op) :
       /\ Settle(gmailOperation(op, t, invocations), t)
       /\ accepted' = accepted + (IF BackendProcessed(t) THEN 1 ELSE 0)

\* The sleep between two attempts is over: the loop goes round and calls fn().
SleepDone ==
  /\ pc = "sleeping"
  /\ attempt' = attempt + 1
  /\ IF attempt' < retryConfig.attempts
       THEN /\ StartInvocation
            /\ UNCHANGED <<outcome, rejection>>
       ELSE /\ pc' = "done"
            /\ outcome' = "rejected"
            /\ rejection' = lastError
            /\ UNCHANGED <<invocations, httpRequests>>
  /\ UNCHANGED <<retry, retryConfig, provider, op, lastError, value, log,
                 sleeps, accepted>>
  /\ UNCHANGED <<streamVars, restVars>>

\* A client just built by createMail, about to make one call to one of `ops`.
RetryStart(ops) ==
  /\ retry \in RetryOptions
  /\ retryConfig = MailClientConstructor(retry)
  /\ provider \in Providers
  /\ op \in ops
  /\ pc = "idle"
  /\ attempt = 0
  /\ lastError = NoError
  /\ outcome = "pending"
  /\ value = 0
  /\ rejection = NoError
  /\ invocations = 0
  /\ log = <<>>
  /\ sleeps = 0
  /\ httpRequests = 0
  /\ accepted = 0

RetryInit == RetryStart(Ops)

vars == <<retryVars, streamVars, restVars>>

\* No watch call is made.
WatchIdle ==
  /\ hasWatch = FALSE
  /\ watchOptions = 0
  /\ watchArgs = 0
  /\ providerHandle = 0
  /\ handle = 0
  /\ errorNames = ""

\* No provider instance is shared by concurrent callers.
ConnectIdle ==
  /\ optionsKind = "oauth"
  /\ keyValid = TRUE
  /\ accessToken = 0
  /\ expiresAt = Undefined
  /\ now = 0
  /\ connected = FALSE
  /\ callerPc = <<>>
  /\ callerOp = <<>>
  /\ callerResult = <<>>
  /\ callerCalls = 0
  /\ tokenFetches = 0
  /\ lastLifecycle = "none"

\* No independent facade calls are made.
CallsIdle ==
  /\ callPc = <<>>
  /\ callAttempt = <<>>
  /\ callLastError = <<>>
  /\ callRejection = <<>>
  /\ callOutcome = <<>>
  /\ callInFlight = <<>>
  /\ callInvocations = <<>>
  /\ callSleeps = <<>>
  /\ issued = <<>>
  /\ completed = <<>>

\* No wait is computed: DEFAULT_RETRY.
BackoffIdle ==
  /\ backoff = "exponential"
  /\ initialDelay = 1000
  /\ maxDelay = 30000
  /\ failed = 0
  /\ delays = <<>>

\* No message is translated.
TranslateIdle ==
  /\ labelIds = <<>>
  /\ payload = <<>>
  /\ translated = FALSE
  /\ email = <<>>
  /\ body = <<>>
  /\ attachments = <<>>
  /\ hasAtob = TRUE

\* No address is formatted or parsed.
AddressIdle ==
  /\ address = <<>>
  /\ formatted = <<>>
  /\ parsed = <<>>
  /\ addressPc = "input"

\* No address list is parsed.
ListIdle ==
  /\ listElements = <<>>
  /\ rawList = <<>>
  /\ parserList = <<>>
  /\ gmailList = <<>>
  /\ listParsed = {}

\* Nothing is encoded or decoded.
CodecIdle ==
  /\ codecText = <<>>
  /\ hasBtoa = TRUE
  /\ codecAtob = TRUE
  /\ encoded = <<>>
  /\ decoded = <<>>
  /\ codecPc = "input"

\* Nothing is sent.
SendIdle ==
  /\ sendOptions = <<>>
  /\ envelope = <<>>
  /\ boundary = ""
  /\ sendPc = "idle"
  /\ sendResult = "none"

\* No message is moved.
MoveIdle ==
  /\ mailLabels = <<>>
  /\ moveFolder = ""
  /\ modifyRequests = <<>>
  /\ movePc = "idle"
  /\ gotFolder = ""

RestIdle ==
  WatchIdle /\ ConnectIdle /\ CallsIdle /\ BackoffIdle /\ TranslateIdle /\ AddressIdle /\ ListIdle /\ CodecIdle /\ SendIdle /\ MoveIdle

\* No stream is iterated.
StreamIdle ==
  /\ pageSizes = <<>>
  /\ gen = "notStarted"
  /\ pageNo = 0
  /\ itemNo = 0
  /\ pageToken = NoToken
  /\ listReqs = <<>>
  /\ detailReqs = <<>>
  /\ delivered = <<>>
  /\ nextCalls = 0
  /\ lateCalls = 0
  /\ streamCalls = 0
  /\ consumer = "stopped"
  /\ providerError = NoError
  /\ streamError = NoError

Init == RetryInit /\ StreamIdle /\ RestIdle

Next ==
  \/ FacadeCall
  \/ MockSettle
  \/ GmailSettle
  \/ SleepDone

Spec == Init /\ [][Next]_vars

(***************************************************************************)
(* The facade methods outside withRetry: disconnect and watch.             *)
(*                                                                         *)
(* disconnect is `return this.provider.disconnect()`: FacadeCall starts    *)
(* the provider call and MockSettle / GmailSettle end it.  watch is        *)
(* synchronous: capability check, then the provider's watch, in one step.  *)
(***************************************************************************)

\* WatchOptions values a caller passes (0: none).
WatchOptionValues == {0, 1, 2}

\* WatchHandle objects a provider returns.
WatchHandles == {1, 2}

\* No handle was returned.
NoHandle == 0

\* Variant: the capability check never fires.
WatchMissing_never(has) == FALSE

\* !this.provider.watch
WatchMissing(has) == ~has

\* What provider.watch(options) does: GmailProvider.watch always throws
\* `new Error('Watch not yet implemented...')`; a mock's watch returns a handle
\* or throws.  Calling a method the provider does not have is a TypeError.
providerWatch(p, has, inv) ==
  IF ~has THEN {[ok |-> FALSE, handle |-> NoHandle, error |-> PlainError("TypeError", inv)]}
  ELSE IF p = "gmail"
    THEN {[ok |-> FALSE, handle |-> NoHandle, error |-> PlainError("Error", inv)]}
    ELSE {[ok |-> TRUE, handle |-> h, error |-> NoError] : h \in WatchHandles}
         \cup {[ok |-> FALSE, handle |-> NoHandle, error |-> r.error] :
                  r \in MockOutcomes(inv) \ {Resolved}}

\* MailClient.watch(options)
FacadeWatch ==
  /\ pc = "idle"
  /\ op = "watch"
  /\ pc' = "done"
  /\ IF WatchMissing(hasWatch)
       THEN \* throw new Error(`Provider ${this.provider.name} does not support watch`)
            /\ outcome' = "rejected"
            /\ rejection' = PlainError("Error", 0)
            /\ errorNames' = provider
            /\ UNCHANGED <<invocations, log, watchArgs, providerHandle, handle>>
       ELSE \E r \in providerWatch(provider, hasWatch, invocations + 1) :
            /\ invocations' = invocations + 1
            /\ watchArgs' = watchOptions
            /\ log' = Append(log, [ok |-> r.ok, error |-> r.error, transport |-> NoTransport])
            /\ providerHandle' = r.handle
            /\ handle' = r.handle
            /\ outcome' = IF r.ok THEN "resolved" ELSE "rejected"
            /\ rejection' = r.error
            /\ UNCHANGED errorNames
  /\ UNCHANGED <<retry, retryConfig, provider, op, attempt, lastError, value, sleeps,
                 httpRequests, accepted, hasWatch, watchOptions>>
  /\ UNCHANGED <<streamVars, connectVars, callsVars, backoffVars, translateVars, addressVars,
                 listVars,
                 codecVars,
                 sendVars,
                 moveVars>>

\* A client about to make one disconnect or one watch call.  GmailProvider has
\* a watch method; a custom provider may or may not.
UnwrappedInit ==
  /\ RetryStart(UnwrappedOps)
  /\ hasWatch \in (IF op = "watch" /\ provider = "mock" THEN BOOLEAN
                    ELSE IF op = "watch" THEN {TRUE} ELSE {FALSE})
  /\ watchOptions \in (IF op = "watch" THEN WatchOptionValues ELSE {0})
  /\ watchArgs = 0
  /\ providerHandle = NoHandle
  /\ handle = NoHandle
  /\ errorNames = ""
  /\ StreamIdle
  /\ MoveIdle
  /\ SendIdle
  /\ CodecIdle
  /\ ListIdle
  /\ ConnectIdle
  /\ CallsIdle
  /\ BackoffIdle
  /\ TranslateIdle
  /\ AddressIdle

UnwrappedNext ==
  \/ FacadeCall
  \/ MockSettle
  \/ GmailSettle
  \/ FacadeWatch

SpecUnwrapped == UnwrappedInit /\ [][UnwrappedNext]_vars

\* C11: a disconnect call invokes the provider's disconnect at most once and
\* never sleeps, whatever the retry configuration; once it has ended the
\* provider was invoked exactly once, and if that invocation failed the caller
\* got that very error, even one marked retryable.
C11_DisconnectNotRetried ==
  op = "disconnect" =>
    /\ invocations <= 1
    /\ sleeps = 0
    /\ pc \in {"idle", "inflight", "done"}
    /\ pc = "done" =>
         /\ invocations = 1
         /\ Len(log) = 1
         /\ log[1].ok => outcome = "resolved"
         /\ ~log[1].ok => outcome = "rejected" /\ rejection = log[1].error

\* A disconnect on a client with retry enabled failed with an error marked
\* retryable and the caller has it.
C11_Witness ==
  /\ op = "disconnect"
  /\ retryConfig.enabled
  /\ retryConfig.attempts > 1
  /\ pc = "done"
  /\ outcome = "rejected"
  /\ rejection.retryable = "true"
  /\ invocations = 1

\* C12: watch on a provider without a watch method throws an error naming the
\* provider and invokes nothing; on a provider with one it invokes the
\* provider's watch exactly once with the caller's options, without retry, and
\* returns the provider's handle unchanged (or throws what the provider threw).
C12_WatchDelegates ==
  (op = "watch" /\ pc = "done") =>
    /\ sleeps = 0
    /\ ~hasWatch =>
         /\ outcome = "rejected"
         /\ rejection.name = "Error"
         /\ errorNames = provider
         /\ invocations = 0
         /\ handle = NoHandle
    /\ hasWatch =>
         /\ invocations = 1
         /\ Len(log) = 1
         /\ watchArgs = watchOptions
         /\ log[1].ok => outcome = "resolved" /\ handle = providerHandle /\ handle # NoHandle
         /\ ~log[1].ok => outcome = "rejected" /\ rejection = log[1].error /\ handle = NoHandle

\* watch was called, with retry enabled, on a provider that has no watch method.
C12_Witness ==
  /\ op = "watch"
  /\ pc = "done"
  /\ ~hasWatch
  /\ retryConfig.enabled
  /\ errorNames = "mock"

(***************************************************************************)
(* GmailProvider.stream behind the delegating MailClient.stream, driven by *)
(* one consumer.                                                           *)
(***************************************************************************)
\* Most pages of a result, and most messages of one page.
MaxPages == 3

MaxPageSize == 2

\* next() calls made after the sequence was over that are explored.
MaxLateCalls == 1

PageSizeSeqs == UNION {[1..n -> 0..MaxPageSize] : n \in 1..MaxPages}

RECURSIVE SumSizes(_)
\* Number of messages of pages 1..j.
SumSizes(j) == IF j = 0 THEN 0 ELSE pageSizes[j] + SumSizes(j - 1)

\* The backend's messages.list: the page a token stands for, its messages
\* (ids number the messages of the whole result) and its nextPageToken.
PageOf(token) == IF token = NoToken THEN 1 ELSE token

ItemId(p, k) == SumSizes(p - 1) + k

NextPageToken(p) == IF p < Len(pageSizes) THEN p + 1 ELSE NoToken

\* while (pageToken)
ContinueLoop(token) == token # NoToken

\* !response.messages?.length
EmptyPage(p) == pageSizes[p] = 0

\* Variant: the details of a whole page are fetched before its first item is
\* yielded (as list does).
DetailIds_wholePage(p, k) ==
  IF k = 1 THEN [i \in 1..pageSizes[p] |-> ItemId(p, i)] ELSE <<>>

\* The messages.get requests issued before item k of page p is yielded.
DetailIds(p, k) == <<ItemId(p, k)>>

\* A request of stream that fails: request rejects, or resolves undefined
\* (204), on which reading the response raises a TypeError.
streamRequest(t, inv) ==
  LET r == request(t, inv) IN
  IF r.ok /\ r.undefinedValue THEN Rejected(PlainError("TypeError", inv)) ELSE r

StreamFailures(inv) ==
  {streamRequest(t, inv).error : t \in {u \in Transports : ~streamRequest(u, inv).ok}}

\* Variant: the facade restarts the provider's sequence after a retryable
\* error, as withRetry would.
StreamRestarts_withRetry(config, e, calls) ==
  config.enabled /\ ~NonRetryable(e) /\ calls < config.attempts

\* MailClient.stream delegates with yield*, outside withRetry: an error of the
\* provider's sequence never makes the facade call provider.stream again.
StreamRestarts(config, e, calls) == FALSE

\* The generator raised e: yield* rethrows it to the consumer.
StreamThrow(e) ==
  /\ providerError' = e
  /\ IF StreamRestarts(retryConfig, e, streamCalls')
       THEN /\ gen' = "notStarted"
            /\ UNCHANGED <<consumer, streamError>>
       ELSE /\ gen' = "done"
            /\ consumer' = "failed"
            /\ streamError' = e
  /\ UNCHANGED <<pageNo, itemNo, delivered>>

\* The loop body from the for loop on: the detail of item k of page p is
\* fetched and the parsed message yielded.
FetchAndYield(p, k, lists) ==
  /\ detailReqs' = detailReqs \o DetailIds(p, k)
  /\ \/ /\ delivered' = Append(delivered, ItemId(p, k))
        /\ gen' = "suspended"
        /\ pageNo' = p
        /\ itemNo' = k
        /\ UNCHANGED <<consumer, providerError, streamError>>
     \/ \E e \in StreamFailures(lists + Len(detailReqs')) : StreamThrow(e)

\* The sequence completes (break, or the while condition fails).
StreamReturn ==
  /\ gen' = "done"
  /\ consumer' = "ended"
  /\ UNCHANGED <<pageNo, itemNo, delivered, detailReqs, providerError, streamError>>

\* The consumer asks for the next item: the generator runs from where it is
\* suspended to its next yield, to its end or to an error.
ConsumerNext ==
  /\ consumer = "iterating"
  /\ gen \in {"notStarted", "suspended"}
  /\ nextCalls' = nextCalls + 1
  /\ streamCalls' = IF gen = "notStarted" THEN streamCalls + 1 ELSE streamCalls
  /\ IF gen = "suspended" /\ itemNo < pageSizes[pageNo]
       THEN /\ FetchAndYield(pageNo, itemNo + 1, Len(listReqs))
            /\ UNCHANGED <<pageToken, listReqs>>
       ELSE /\ pageToken' = IF gen = "notStarted" THEN NoToken
                            ELSE NextPageToken(pageNo)
            /\ IF gen = "suspended" /\ ~ContinueLoop(pageToken')
                 THEN StreamReturn /\ UNCHANGED listReqs
                 ELSE /\ listReqs' = Append(listReqs, pageToken')
                      /\ \/ \E e \in StreamFailures(Len(listReqs') + Len(detailReqs)) :
                              StreamThrow(e) /\ UNCHANGED detailReqs
                         \/ IF EmptyPage(PageOf(pageToken'))
                              THEN StreamReturn
                              ELSE FetchAndYield(PageOf(pageToken'), 1, Len(listReqs'))
  /\ UNCHANGED <<pageSizes, lateCalls>>
  /\ UNCHANGED <<retryVars, restVars>>

\* The consumer leaves its loop early: return() finishes the generator.
ConsumerStop ==
  /\ consumer = "iterating"
  /\ consumer' = "stopped"
  /\ gen' = "done"
  /\ UNCHANGED <<pageSizes, pageNo, itemNo, pageToken, listReqs, detailReqs,
                 delivered, nextCalls, lateCalls, streamCalls, providerError,
                 streamError>>
  /\ UNCHANGED <<retryVars, restVars>>

\* next() on a generator that is over: it answers done without running.
ConsumerNextLate ==
  /\ consumer # "iterating"
  /\ gen = "done"
  /\ lateCalls < MaxLateCalls
  /\ lateCalls' = lateCalls + 1
  /\ UNCHANGED <<pageSizes, gen, pageNo, itemNo, pageToken, listReqs, detailReqs,
                 delivered, nextCalls, streamCalls, consumer, providerError,
                 streamError>>
  /\ UNCHANGED <<retryVars, restVars>>

StreamInit ==
  /\ retry \in RetryOptions
  /\ retryConfig = MailClientConstructor(retry)
  /\ provider = "gmail"
  /\ op = "stream"
  /\ pc = "idle"
  /\ attempt = 0
  /\ lastError = NoError
  /\ outcome = "pending"
  /\ value = 0
  /\ rejection = NoError
  /\ invocations = 0
  /\ log = <<>>
  /\ sleeps = 0
  /\ httpRequests = 0
  /\ accepted = 0
  /\ pageSizes \in PageSizeSeqs
  /\ gen = "notStarted"
  /\ pageNo = 0
  /\ itemNo = 0
  /\ pageToken = NoToken
  /\ listReqs = <<>>
  /\ detailReqs = <<>>
  /\ delivered = <<>>
  /\ nextCalls = 0
  /\ lateCalls = 0
  /\ streamCalls = 0
  /\ consumer = "iterating"
  /\ providerError = NoError
  /\ streamError = NoError
  /\ RestIdle

StreamNext ==
  \/ ConsumerNext
  \/ ConsumerStop
  \/ ConsumerNextLate

SpecStream == StreamInit /\ [][StreamNext]_vars

(***************************************************************************)
(* Properties of the retry policy and of the Gmail HTTP boundary (Spec).   *)
(***************************************************************************)
\* The settled invocation i failed with an Error marked retryable = false.
FailedNonRetryably(i) ==
  ~log[i].ok /\ log[i].error.isError /\ log[i].error.retryable = "false"

\* The settled invocation i failed with a value not marked retryable = false.
FailedRetryably(i) == ~log[i].ok /\ log[i].error.retryable # "false"

\* C1: one facade send (or mutation) call makes the Gmail backend carry the
\* request out at most once, whatever the transport does and whatever the
\* retry configuration is.
C1_AcceptedAtMostOnce ==
  (provider = "gmail" /\ op \in {"send", "markAsRead"}) => accepted <= 1

\* C2: with retry enabled, once an attempt fails with an error marked
\* retryable = false the call is over: it rejected with that very error and the
\* provider operation is not invoked again (so a first attempt failing that
\* way leaves exactly one invocation).
C2_NonRetryableFastPath ==
  retryConfig.enabled =>
    \A i \in 1..Len(log) :
      FailedNonRetryably(i) =>
        /\ i = Len(log)
        /\ invocations = i
        /\ pc = "done"
        /\ outcome = "rejected"
        /\ rejection = log[i].error

C2_Witness ==
  /\ retryConfig.enabled /\ retryConfig.attempts = MaxAttempts
  /\ Len(log) = 1 /\ FailedNonRetryably(1)
  /\ invocations = 1 /\ outcome = "rejected"

\* C3: with retry enabled and attempts = n >= 1, after k < n invocations that
\* each failed with an error not marked retryable = false the call is still
\* going on (it has not given up), and when invocation k+1 then succeeds the
\* call resolves with that invocation's value after exactly k+1 invocations.
C3_RetryThenSucceed ==
  (retryConfig.enabled /\ retryConfig.attempts >= 1) =>
    \A k \in 0..(retryConfig.attempts - 1) :
      ((Len(log) >= k) /\ (\A i \in 1..k : FailedRetryably(i))) =>
        /\ (Len(log) = k => (outcome = "pending" /\ pc # "done"))
        /\ (Len(log) > k /\ log[k + 1].ok) =>
             /\ Len(log) = k + 1
             /\ invocations = k + 1
             /\ pc = "done"
             /\ outcome = "resolved"
             /\ value = k + 1

C3_Witness ==
  /\ retryConfig.enabled /\ retryConfig.attempts = 3
  /\ Len(log) = 3 /\ FailedRetryably(1) /\ FailedRetryably(2) /\ log[3].ok
  /\ log[1].error.retryable = "absent" /\ log[2].error.retryable = "true"
  /\ outcome = "resolved" /\ invocations = 3

\* C4: with retry enabled and attempts = n >= 1, a call all of whose
\* invocations fail retryably ends after exactly n invocations and n-1 sleeps
\* (none after the last attempt), rejecting with the error of the n-th.
C4_ExhaustAttempts ==
  (/\ retryConfig.enabled /\ retryConfig.attempts >= 1
   /\ pc = "done"
   /\ \A i \in 1..Len(log) : FailedRetryably(i)) =>
    /\ invocations = retryConfig.attempts
    /\ Len(log) = retryConfig.attempts
    /\ sleeps = retryConfig.attempts - 1
    /\ outcome = "rejected"
    /\ rejection = log[retryConfig.attempts].error

C4_Witness ==
  /\ retryConfig.enabled /\ retryConfig.attempts = MaxAttempts
  /\ pc = "done" /\ outcome = "rejected"
  /\ Len(log) = MaxAttempts /\ \A i \in 1..Len(log) : FailedRetryably(i)
  /\ sleeps = MaxAttempts - 1

\* The classification by status that C5 states.
ClassifiedAs(e, t) ==
  CASE t.status \in {401, 403} -> e.code = "AUTH_ERROR" /\ e.retryable = "false"
    [] t.status = 429 ->
         /\ e.code = "RATE_LIMIT" /\ e.retryable = "true"
         /\ (t.retryAfterHeader # NoHeader => e.retryAfter = t.retryAfterHeader * 1000)
    [] t.status = 404 -> e.code = "PROVIDER_ERROR" /\ e.retryable = "false"
    [] t.status >= 500 -> e.code = "PROVIDER_ERROR" /\ e.retryable = "true"
    [] OTHER -> e.code = "PROVIDER_ERROR" /\ e.retryable = "false"

\* C5: the error GmailApi.request rejects with for a non-2xx response carries
\* the code and the retryable flag of its status class.
C5_StatusClassification ==
  provider = "gmail" =>
    \A i \in 1..Len(log) :
      (log[i].transport.kind = "response" /\ ~ResponseOk(log[i].transport.status)) =>
        (~log[i].ok /\ ClassifiedAs(log[i].error, log[i].transport))

\* C6: a Gmail operation that received a 401, 403 or 404 response issued its
\* HTTP request exactly once, for every `attempts` setting.
C6_AuthAndNotFoundNotRetried ==
  (provider = "gmail" /\
   \E i \in 1..Len(log) : log[i].transport.status \in {401, 403, 404}) =>
    httpRequests = 1

\* C10: with retry disabled the provider operation is invoked exactly once,
\* no sleep is made, and a failure reaches the caller as the very value the
\* provider rejected with.
C10_RetryDisabled ==
  retry.off =>
    /\ invocations <= 1
    /\ sleeps = 0
    /\ pc # "idle" => invocations = 1
    /\ pc = "done" =>
         /\ Len(log) = 1
         /\ log[1].ok => (outcome = "resolved" /\ value = 1)
         /\ ~log[1].ok => (outcome = "rejected" /\ rejection = log[1].error)

C10_Witness ==
  /\ retry.off /\ pc = "done" /\ invocations = 1
  /\ outcome = "rejected" /\ rejection.retryable = "true" /\ rejection.inv = 1

(***************************************************************************)
(* Properties of the stream (SpecStream).                                  *)
(***************************************************************************)
\* The ids of all messages of the result, in page order and in-page order.
AllItems == [i \in 1..SumSizes(Len(pageSizes)) |-> i]

C7_OnDemandState ==
  /\ Len(detailReqs) <= nextCalls
  /\ Len(detailReqs) <= Len(delivered) + 1
  /\ \A i \in 1..Len(detailReqs) : detailReqs[i] = i
  /\ \A j \in 1..Len(listReqs) : nextCalls > SumSizes(PageOf(listReqs[j]) - 1)
  /\ (pageSizes = <<2, 2, 2>> /\ consumer = "stopped" /\ Len(delivered) = 2) =>
       (Len(listReqs) = 1 /\ Len(detailReqs) = 2)

C7_RequestsOnlyOnDemand ==
  /\ (listReqs' # listReqs \/ detailReqs' # detailReqs) =>
       (consumer = "iterating" /\ nextCalls' = nextCalls + 1)
  /\ consumer = "stopped" => (listReqs' = listReqs /\ detailReqs' = detailReqs)

\* C7: stream fetches on demand.  A detail request is issued only for the item
\* the consumer is asking for, the list request of a page only once the
\* consumer has asked for an item beyond all earlier pages, every request is
\* issued inside a next() of the consumer, and none after it stopped; with 3
\* pages of 2 items, taking 2 items and stopping costs 1 list request and 2
\* detail requests.
C7_StreamOnDemand == []C7_OnDemandState /\ [][C7_RequestsOnlyOnDemand]_vars

C7_Witness ==
  /\ pageSizes = <<2, 2, 2>> /\ consumer = "stopped" /\ Len(delivered) = 2
  /\ Len(listReqs) = 1 /\ Len(detailReqs) = 2 /\ lateCalls = 1

\* C8: a stream consumed to its end without errors issued one list request
\* per page of the token chain, following the tokens, ended on a page without
\* continuation token, and delivered every item of every page once, in order.
C8_StreamExhaustsTokenChain ==
  consumer = "ended" =>
    /\ Len(listReqs) = Len(pageSizes)
    /\ \A j \in 1..Len(listReqs) : listReqs[j] = IF j = 1 THEN NoToken ELSE j
    /\ NextPageToken(PageOf(listReqs[Len(listReqs)])) = NoToken
    /\ delivered = AllItems

C9_NoRestartState ==
  /\ streamCalls <= 1
  /\ \A i \in 1..Len(delivered) : delivered[i] = i
  /\ providerError # NoError =>
       (consumer = "failed" /\ streamError = providerError)
  /\ consumer = "failed" => providerError # NoError

C9_NoRestartStep ==
  /\ (providerError = NoError /\ providerError' # NoError) => delivered' = delivered
  /\ consumer = "failed" =>
       /\ listReqs' = listReqs
       /\ detailReqs' = detailReqs
       /\ delivered' = delivered
       /\ streamCalls' = streamCalls

MaxCallers == 2

\* Provider calls made in all.
MaxCalls == 3

\* Last clock value explored.
MaxClock == 2

Callers == 1..MaxCallers

\* expires_in of a token response and of OAuth options, in clock ticks.
TokenLifetime == 1

\* accessToken of OAuth options.
OAuthToken == 9

ProviderOps == {"connect", "get", "disconnect"}

\* The call has not settled.
Pending == [ok |-> FALSE, undefinedValue |-> FALSE, error |-> NoError]

\* What the token endpoint does with one request: fetch rejects, or a response
\* arrives whose JSON body can or cannot be read.
TokenTransports ==
  {[kind |-> "network", status |-> 0, bodyReadable |-> FALSE]} \cup
  {[kind |-> "response", status |-> st, bodyReadable |-> b] :
      st \in {200, 400, 401}, b \in BOOLEAN}

\* What the Gmail API does with the request of a get: the request is lost, or
\* a 200 (body readable or not) or a 401 arrives.
ApiTransports ==
  {t \in Transports : t.kind = "lost_request" \/ (t.kind = "response" /\ t.status \in {200, 401})}

\* fetchServiceAccountToken from the answer of the token endpoint on: a fetch
\* rejection propagates as it is, !response.ok throws AuthenticationError
\* (its body is read under .catch), a 2xx body that is not JSON makes
\* response.json() throw.
tokenExchange(t, inv) ==
  IF t.kind = "network" THEN Rejected(PlainError("TypeError", inv))
  ELSE IF ~(200 <= t.status /\ t.status <= 299) THEN Rejected(AuthenticationError(inv))
  ELSE IF ~t.bodyReadable THEN Rejected(PlainError("SyntaxError", inv))
  ELSE Resolved

\* init(): a service account fetches a token on every call, whether or not a
\* token request of the instance is already in flight.
SendsTokenRequest(kind) == kind = "serviceAccount"

CallerStarts(c, o) ==
  /\ callerPc[c] = "idle"
  /\ callerCalls < MaxCalls
  /\ callerOp' = [callerOp EXCEPT ![c] = o]
  /\ callerCalls' = callerCalls + 1

CallerSettles(c, r) ==
  /\ callerPc' = [callerPc EXCEPT ![c] = "done"]
  /\ callerResult' = [callerResult EXCEPT ![c] = r]

\* GmailProvider.connect up to its first await on the network.
ProviderConnect(c) ==
  /\ CallerStarts(c, "connect")
  /\ IF SendsTokenRequest(optionsKind)
       THEN IF keyValid
              THEN /\ callerPc' = [callerPc EXCEPT ![c] = "token"]
                   /\ tokenFetches' = tokenFetches + 1
                   /\ UNCHANGED <<callerResult, connected>>
              ELSE \* jose.importPKCS8 throws
                   /\ CallerSettles(c, Rejected(PlainError("TypeError", c)))
                   /\ UNCHANGED <<tokenFetches, connected>>
       ELSE /\ CallerSettles(c, ResolvedUndefined)
            /\ connected' = TRUE
            /\ UNCHANGED tokenFetches
  /\ lastLifecycle' = "connect"
  /\ UNCHANGED <<optionsKind, keyValid, accessToken, expiresAt, now>>
  /\ UNCHANGED <<retryVars, streamVars, watchVars, callsVars, backoffVars, translateVars, addressVars,
                 listVars,
                 codecVars,
                 sendVars,
                 moveVars>>

\* The token endpoint answers the request of caller c; the rest of
\* fetchServiceAccountToken, of init and of connect follows.
TokenResponse(c) ==
  /\ callerPc[c] = "token"
  /\ \E t \in TokenTransports :
       LET r == tokenExchange(t, c)
       IN /\ CallerSettles(c, IF r.ok THEN ResolvedUndefined ELSE r)
          /\ IF r.ok
               THEN /\ accessToken' = c
                    /\ expiresAt' = now + TokenLifetime
                    /\ connected' = TRUE
               ELSE UNCHANGED <<accessToken, expiresAt, connected>>
  /\ UNCHANGED <<optionsKind, keyValid, now, callerOp, callerCalls, tokenFetches, lastLifecycle>>
  /\ UNCHANGED <<retryVars, streamVars, watchVars, callsVars, backoffVars, translateVars, addressVars,
                 listVars,
                 codecVars,
                 sendVars,
                 moveVars>>

\* GmailProvider.get up to GmailApi.request's fetch: the expiry check throws
\* before any request is made.
ProviderGet(c) ==
  /\ CallerStarts(c, "get")
  /\ IF TokenExpired(expiresAt, now)
       THEN CallerSettles(c, Rejected(AuthenticationError(c)))
       ELSE /\ callerPc' = [callerPc EXCEPT ![c] = "request"]
            /\ UNCHANGED callerResult
  /\ UNCHANGED <<optionsKind, keyValid, accessToken, expiresAt, now, connected, tokenFetches, lastLifecycle>>
  /\ UNCHANGED <<retryVars, streamVars, watchVars, callsVars, backoffVars, translateVars, addressVars,
                 listVars,
                 codecVars,
                 sendVars,
                 moveVars>>

\* The Gmail API answers the request of caller c.
GetResponse(c) ==
  /\ callerPc[c] = "request"
  /\ \E t \in ApiTransports : CallerSettles(c, gmailOperation("get", t, c))
  /\ UNCHANGED <<optionsKind, keyValid, accessToken, expiresAt, now, connected,
                 callerOp, callerCalls, tokenFetches, lastLifecycle>>
  /\ UNCHANGED <<retryVars, streamVars, watchVars, callsVars, backoffVars, translateVars, addressVars,
                 listVars,
                 codecVars,
                 sendVars,
                 moveVars>>

\* GmailProvider.disconnect
ProviderDisconnect(c) ==
  /\ CallerStarts(c, "disconnect")
  /\ connected' = FALSE
  /\ CallerSettles(c, ResolvedUndefined)
  /\ lastLifecycle' = "disconnect"
  /\ UNCHANGED <<optionsKind, keyValid, accessToken, expiresAt, now, tokenFetches>>
  /\ UNCHANGED <<retryVars, streamVars, watchVars, callsVars, backoffVars, translateVars, addressVars,
                 listVars,
                 codecVars,
                 sendVars,
                 moveVars>>

\* The caller takes the result and goes on to its next call.
CallerReturns(c) ==
  /\ callerPc[c] = "done"
  /\ callerCalls < MaxCalls
  /\ callerPc' = [callerPc EXCEPT ![c] = "idle"]
  /\ callerResult' = [callerResult EXCEPT ![c] = Pending]
  /\ callerOp' = [callerOp EXCEPT ![c] = "none"]
  /\ UNCHANGED <<optionsKind, keyValid, accessToken, expiresAt, now, connected,
                 callerCalls, tokenFetches, lastLifecycle>>
  /\ UNCHANGED <<retryVars, streamVars, watchVars, callsVars, backoffVars, translateVars, addressVars,
                 listVars,
                 codecVars,
                 sendVars,
                 moveVars>>

\* Time passes.
Tick ==
  /\ now < MaxClock
  /\ now' = now + 1
  /\ UNCHANGED <<optionsKind, keyValid, accessToken, expiresAt, connected,
                 callerPc, callerOp, callerResult, callerCalls, tokenFetches, lastLifecycle>>
  /\ UNCHANGED <<retryVars, streamVars, watchVars, callsVars, backoffVars, translateVars, addressVars,
                 listVars,
                 codecVars,
                 sendVars,
                 moveVars>>

\* new GmailProvider(options): OAuth options carry a token and perhaps its
\* expiry; a service account starts with the empty token.
ConnectInit ==
  /\ optionsKind \in {"oauth", "serviceAccount"}
  /\ keyValid \in (IF optionsKind = "serviceAccount" THEN BOOLEAN ELSE {TRUE})
  /\ accessToken = (IF optionsKind = "oauth" THEN OAuthToken ELSE 0)
  /\ expiresAt \in (IF optionsKind = "oauth" THEN {Undefined, TokenLifetime} ELSE {Undefined})
  /\ now = 0
  /\ connected = FALSE
  /\ callerPc = [c \in Callers |-> "idle"]
  /\ callerOp = [c \in Callers |-> "none"]
  /\ callerResult = [c \in Callers |-> Pending]
  /\ callerCalls = 0
  /\ tokenFetches = 0
  /\ lastLifecycle = "none"
  /\ RetryStart({"get"})
  /\ retry = [off |-> TRUE, attempts |-> Absent]
  /\ provider = "gmail"
  /\ StreamIdle
  /\ MoveIdle
  /\ SendIdle
  /\ CodecIdle
  /\ ListIdle
  /\ WatchIdle
  /\ CallsIdle
  /\ BackoffIdle
  /\ TranslateIdle
  /\ AddressIdle

ConnectNext ==
  \/ \E c \in Callers : ProviderConnect(c)
  \/ \E c \in Callers : TokenResponse(c)
  \/ \E c \in Callers : ProviderGet(c)
  \/ \E c \in Callers : GetResponse(c)
  \/ \E c \in Callers : ProviderDisconnect(c)
  \/ \E c \in Callers : CallerReturns(c)
  \/ Tick

SpecConnect == ConnectInit /\ [][ConnectNext]_vars

\* Token requests of the instance that are in flight.
TokenRequestsInFlight == {c \in Callers : callerPc[c] = "token"}

\* C13: at most one token request of a backend instance is in flight at any
\* time.
C13_SingleFlightToken == Cardinality(TokenRequestsInFlight) <= 1

\* The error is a FaktoorError: it carries a code and a retryable flag.
IsFaktoorError(e) == e.isError /\ e.code # "none" /\ e.retryable \in {"true", "false"}

\* C15: every failure with which a provider call of the Gmail backend ends,
\* connect and its token exchange included, is a FaktoorError.
C15_OnlyTaxonomyErrorsLeave ==
  \A c \in DOMAIN callerPc :
    (callerPc[c] = "done" /\ ~callerResult[c].ok) => IsFaktoorError(callerResult[c].error)

(***************************************************************************)
(* Several facade calls on one client.                                     *)
(*                                                                         *)
(* Every call runs withRetry on its own: the loop awaits fn(), then, after *)
(* a retryable failure that is not the last attempt, awaits sleep, and     *)
(* only then starts the next iteration.  Calls are issued one after the    *)
(* other without being awaited, so their invocations interleave.           *)
(***************************************************************************)

\* Facade calls issued on the client.
MaxFacadeCalls == 2

FacadeCalls == 1..MaxFacadeCalls

\* How an invocation of the mock provider's operation ends.
CallOutcomes(inv) ==
  {r \in MockOutcomes(inv) : r.ok \/ (r.error.isError /\ r.error.retryable # "absent")}

\* Variant: the loop goes on to the next attempt without awaiting fn().
AttemptAwaited_not(pcv) == pcv \in {"sleeping", "inflight"}

\* The loop reaches its next iteration only from the awaited sleep, which it
\* reaches only from the catch of the awaited fn().
AttemptAwaited(pcv) == pcv = "sleeping"

CallStarts(i) ==
  /\ callInvocations' = [callInvocations EXCEPT ![i] = @ + 1]
  /\ callInFlight' = [callInFlight EXCEPT ![i] = @ + 1]
  /\ callPc' = [callPc EXCEPT ![i] = "inflight"]

CallEnds(i, res, e) ==
  /\ callPc' = [callPc EXCEPT ![i] = "done"]
  /\ callOutcome' = [callOutcome EXCEPT ![i] = res]
  /\ callRejection' = [callRejection EXCEPT ![i] = e]
  /\ completed' = Append(completed, i)

\* client.get(...) is called: withRetry up to its first await.
CallIssue(i) ==
  /\ callPc[i] = "idle"
  /\ issued' = Append(issued, i)
  /\ IF RetryDisabled(retryConfig) \/ 0 < retryConfig.attempts
       THEN /\ CallStarts(i)
            /\ UNCHANGED <<callOutcome, callRejection, completed>>
       ELSE /\ CallEnds(i, "rejected", callLastError[i])
            /\ UNCHANGED <<callInvocations, callInFlight>>
  /\ UNCHANGED <<callAttempt, callLastError, callSleeps>>
  /\ UNCHANGED <<retryVars, streamVars, watchVars, connectVars, backoffVars, translateVars, addressVars,
                 listVars,
                 codecVars,
                 sendVars,
                 moveVars>>

\* The invocation in flight for call i settles: the rest of the loop body.
CallSettle(i) ==
  /\ callPc[i] = "inflight"
  /\ callInFlight' = [callInFlight EXCEPT ![i] = @ - 1]
  /\ \E r \in CallOutcomes(callInvocations[i]) :
       IF RetryDisabled(retryConfig)
         THEN /\ CallEnds(i, IF r.ok THEN "resolved" ELSE "rejected", r.error)
              /\ UNCHANGED <<callAttempt, callLastError, callSleeps>>
       ELSE IF r.ok
         THEN /\ CallEnds(i, "resolved", callRejection[i])
              /\ UNCHANGED <<callAttempt, callLastError, callSleeps>>
       ELSE /\ callLastError' = [callLastError EXCEPT ![i] = r.error]
            /\ IF NonRetryable(r.error)
                 THEN /\ CallEnds(i, "rejected", r.error)
                      /\ UNCHANGED <<callAttempt, callSleeps>>
               ELSE IF SleepsAfter(callAttempt[i], retryConfig)
                 THEN /\ callPc' = [callPc EXCEPT ![i] = "sleeping"]
                      /\ callSleeps' = [callSleeps EXCEPT ![i] = @ + 1]
                      /\ UNCHANGED <<callAttempt, callOutcome, callRejection, completed>>
               ELSE /\ callAttempt' = [callAttempt EXCEPT ![i] = @ + 1]
                    /\ CallEnds(i, "rejected", r.error)
                    /\ UNCHANGED callSleeps
  /\ UNCHANGED <<callInvocations, issued>>
  /\ UNCHANGED <<retryVars, streamVars, watchVars, connectVars, backoffVars, translateVars, addressVars,
                 listVars,
                 codecVars,
                 sendVars,
                 moveVars>>

\* The sleep of call i is over: attempt++ and the next iteration.
CallSleepDone(i) ==
  /\ AttemptAwaited(callPc[i])
  /\ callAttempt[i] + 1 < retryConfig.attempts
  /\ callAttempt' = [callAttempt EXCEPT ![i] = @ + 1]
  /\ CallStarts(i)
  /\ UNCHANGED <<callLastError, callRejection, callOutcome, callSleeps, issued, completed>>
  /\ UNCHANGED <<retryVars, streamVars, watchVars, connectVars, backoffVars, translateVars, addressVars,
                 listVars,
                 codecVars,
                 sendVars,
                 moveVars>>

\* A client of a mock provider on which the calls are about to be issued.
CallsInit ==
  /\ RetryStart({"get"})
  /\ provider = "mock"
  /\ callPc = [i \in FacadeCalls |-> "idle"]
  /\ callAttempt = [i \in FacadeCalls |-> 0]
  /\ callLastError = [i \in FacadeCalls |-> NoError]
  /\ callRejection = [i \in FacadeCalls |-> NoError]
  /\ callOutcome = [i \in FacadeCalls |-> "pending"]
  /\ callInFlight = [i \in FacadeCalls |-> 0]
  /\ callInvocations = [i \in FacadeCalls |-> 0]
  /\ callSleeps = [i \in FacadeCalls |-> 0]
  /\ issued = <<>>
  /\ completed = <<>>
  /\ StreamIdle
  /\ MoveIdle
  /\ SendIdle
  /\ CodecIdle
  /\ ListIdle
  /\ WatchIdle
  /\ ConnectIdle
  /\ BackoffIdle
  /\ TranslateIdle
  /\ AddressIdle

CallsNext ==
  \/ \E i \in FacadeCalls : CallIssue(i)
  \/ \E i \in FacadeCalls : CallSettle(i)
  \/ \E i \in FacadeCalls : CallSleepDone(i)

SpecCalls == CallsInit /\ [][CallsNext]_vars

\* At most one invocation of each call is in flight, and while one is, every
\* earlier attempt of the call has settled and has been followed by a sleep.
C14_OneInFlight ==
  \A i \in DOMAIN callPc :
    /\ callInFlight[i] \in {0, 1}
    /\ callInFlight[i] = 1 <=> callPc[i] = "inflight"
    /\ (callPc[i] = "inflight" /\ retryConfig.enabled) =>
         /\ callInvocations[i] = callAttempt[i] + 1
         /\ callSleeps[i] = callAttempt[i]

\* An invocation of a call starts only when none of that call is in flight and,
\* for a retry, from the call's sleep.
C14_StartsAfterSettle ==
  \A i \in DOMAIN callPc :
    callInvocations'[i] > callInvocations[i] =>
      /\ callInFlight[i] = 0
      /\ callInvocations[i] > 0 => callPc[i] = "sleeping"

\* C14: within one facade call the attempts never overlap: attempt i+1 starts
\* only after attempt i has settled and the backoff wait has passed, so at most
\* one invocation of the call is in flight at any time.
C14_AttemptsSequential == []C14_OneInFlight /\ [][C14_StartsAfterSettle]_vars

\* Two calls were issued one after the other, the first was retried while the
\* second was in flight, and the second completed first.
C14_Witness ==
  /\ issued = <<1, 2>>
  /\ completed = <<2, 1>>
  /\ callInvocations[1] >= 2
  /\ callInvocations[2] >= 2

(***************************************************************************)
(* The waits between attempts (getDelay).                                  *)
(*                                                                         *)
(* Math.random() is one of the values k / RandomSteps, 0 <= k <            *)
(* RandomSteps.  Delays are kept exact as integers in units of             *)
(* 1 / DelayScale ms, so that delay * 0.1 * (k / RandomSteps) is           *)
(* delay * k units.  The rounding of IEEE doubles is outside the model.    *)
(***************************************************************************)

\* Values Math.random() takes: k / RandomSteps for k in 0..RandomSteps-1.
RandomSteps == 4

\* Units per millisecond.
DelayScale == 10 * RandomSteps

BackoffKinds == {"none", "fixed", "exponential"}

\* initialDelay values explored (ms).
InitialDelays == {100, 1000}

\* maxDelay values explored (ms).
MaxDelays == {150, 1000, 30000}

RECURSIVE Pow2(_)
\* 2 ** n
Pow2(n) == IF n = 0 THEN 1 ELSE 2 * Pow2(n - 1)

\* Math.min
Min(a, b) == IF a < b THEN a ELSE b

\* Variant: the exponential delay is not capped at maxDelay.
getDelay_uncapped(a, config, k) ==
  IF config.backoff = "none" THEN 0
  ELSE IF config.backoff = "fixed" THEN config.initialDelay * DelayScale
  ELSE LET delay == config.initialDelay * Pow2(a)
           jitter == delay * k
       IN delay * DelayScale + jitter

\* getDelay(attempt, config) with Math.random() = k / RandomSteps, in units.
getDelay(a, config, k) ==
  IF config.backoff = "none" THEN 0
  ELSE IF config.backoff = "fixed" THEN config.initialDelay * DelayScale
  ELSE LET delay == Min(config.initialDelay * Pow2(a), config.maxDelay)
           jitter == delay * k
       IN delay * DelayScale + jitter

\* The RetryConfig of the call.
BackoffConfig ==
  [attempts |-> MaxAttempts, backoff |-> backoff,
   initialDelay |-> initialDelay, maxDelay |-> maxDelay]

\* An attempt fails with a retryable error and is not the last one: the catch
\* block computes the wait, `await sleep(getDelay(attempt, config))`.
AttemptFails ==
  /\ SleepsAfter(failed, BackoffConfig)
  /\ \E k \in 0..(RandomSteps - 1) :
       delays' = Append(delays, getDelay(failed, BackoffConfig, k))
  /\ failed' = failed + 1
  /\ UNCHANGED <<backoff, initialDelay, maxDelay>>
  /\ UNCHANGED <<retryVars, streamVars, watchVars, connectVars, callsVars, translateVars, addressVars,
                 listVars,
                 codecVars,
                 sendVars,
                 moveVars>>

\* The last attempt fails: no wait follows.
LastAttemptFails ==
  /\ failed < BackoffConfig.attempts
  /\ ~SleepsAfter(failed, BackoffConfig)
  /\ failed' = failed + 1
  /\ UNCHANGED <<backoff, initialDelay, maxDelay, delays>>
  /\ UNCHANGED <<retryVars, streamVars, watchVars, connectVars, callsVars, translateVars, addressVars,
                 listVars,
                 codecVars,
                 sendVars,
                 moveVars>>

BackoffInit ==
  /\ backoff \in BackoffKinds
  /\ initialDelay \in InitialDelays
  /\ maxDelay \in MaxDelays
  /\ failed = 0
  /\ delays = <<>>
  /\ RetryStart({"get"})
  /\ retry = [off |-> FALSE, attempts |-> MaxAttempts]
  /\ provider = "mock"
  /\ StreamIdle
  /\ MoveIdle
  /\ SendIdle
  /\ CodecIdle
  /\ ListIdle
  /\ WatchIdle
  /\ ConnectIdle
  /\ CallsIdle
  /\ TranslateIdle
  /\ AddressIdle

BackoffNext ==
  \/ AttemptFails
  \/ LastAttemptFails

SpecBackoff == BackoffInit /\ [][BackoffNext]_vars

\* min(initialDelay * 2^i, maxDelay), in ms
ExponentialBase(i) ==
  IF initialDelay * Pow2(i) <= maxDelay THEN initialDelay * Pow2(i) ELSE maxDelay

\* C16: the wait after the i-th failed attempt (from 0) is 0 for 'none',
\* initialDelay for 'fixed', and within [b, 1.1 b] for 'exponential' with
\* b = min(initialDelay * 2^i, maxDelay); with initialDelay 100 and maxDelay
\* 1000 the first two waits lie in [100,110] and [200,220]; no exponential
\* wait exceeds 1.1 * maxDelay.
C16_DelayBounds ==
  \A n \in 1..Len(delays) :
    LET i == n - 1
        b == ExponentialBase(i)
    IN /\ backoff = "none" => delays[n] = 0
       /\ backoff = "fixed" => delays[n] = initialDelay * DelayScale
       /\ backoff = "exponential" =>
            /\ b * DelayScale <= delays[n]
            /\ 10 * delays[n] <= 11 * b * DelayScale
            /\ 10 * delays[n] <= 11 * maxDelay * DelayScale
            /\ (initialDelay = 100 /\ maxDelay = 1000 /\ n = 1) =>
                 (100 * DelayScale <= delays[n] /\ delays[n] <= 110 * DelayScale)
            /\ (initialDelay = 100 /\ maxDelay = 1000 /\ n = 2) =>
                 (200 * DelayScale <= delays[n] /\ delays[n] <= 220 * DelayScale)

\* Two exponential waits were computed, the second capped at maxDelay = 150
\* and carrying jitter.
C16_Witness ==
  /\ backoff = "exponential"
  /\ initialDelay = 100
  /\ maxDelay = 150
  /\ Len(delays) = 2
  /\ delays[2] > 150 * DelayScale

(***************************************************************************)
(* The Gmail translator (parseGmailMessage).                               *)
(*                                                                         *)
(* Strings are sequences of one-character strings; decoded text is a       *)
(* sequence of code units.  A part is a record                             *)
(*   [mimeType, filename, attachmentId, data, parts]                       *)
(* where filename "", attachmentId 0, data <<>> and parts <<>> stand for   *)
(* an absent (or empty, hence falsy) property.                             *)
(***************************************************************************)

\* Longest labelIds list explored.
MaxLabels == 3

\* Most child parts of a container.
MaxWidth == 2

\* Deepest nesting of containers.
MaxDepth == 2

Range(f) == {f[i] : i \in DOMAIN f}

\* Sequences over S of length 0..n
SeqsUpTo(S, n) == UNION {[1..k -> S] : k \in 0..n}

\* ['INBOX', 'SENT', 'DRAFT', 'TRASH', 'SPAM']
FolderLabels == <<"INBOX", "SENT", "DRAFT", "TRASH", "SPAM">>

\* Labels a message carries.
GmailLabels == Range(FolderLabels) \cup {"UNREAD", "STARRED"}

\* labelIds.find((l) => [...].includes(l)) ?? 'INBOX'
folderLabel(labels) ==
  LET hits == {i \in DOMAIN labels : labels[i] \in Range(FolderLabels)}
  IN IF hits = {} THEN "INBOX"
     ELSE labels[CHOOSE i \in hits : \A j \in hits : i <= j]

\* The base64 alphabet, by sextet value.
Base64Chars ==
  <<
    "A", "B", "C", "D", "E", "F", "G", "H", "I", "J", "K", "L", "M", "N", "O", "P",
    "Q", "R", "S", "T", "U", "V", "W", "X", "Y", "Z", "a", "b", "c", "d", "e", "f",
    "g", "h", "i", "j", "k", "l", "m", "n", "o", "p", "q", "r", "s", "t", "u", "v",
    "w", "x", "y", "z", "0", "1", "2", "3", "4", "5", "6", "7", "8", "9", "+", "/"
  >>

\* data.replace(/-/g, '+').replace(/_/g, '/')
ToStandardBase64(data) ==
  [i \in DOMAIN data |-> IF data[i] = "-" THEN "+" ELSE IF data[i] = "_" THEN "/" ELSE data[i]]

\* base64 + '='.repeat((4 - (base64.length % 4)) % 4)
Pad(base64) == base64 \o [i \in 1..((4 - (Len(base64) % 4)) % 4) |-> "="]

\* The sextet a base64 character stands for.
Sextet(c) == (CHOOSE i \in DOMAIN Base64Chars : Base64Chars[i] = c) - 1

RECURSIVE DecodeGroups(_)
\* The bytes of a padded base64 string, four characters at a time.
DecodeGroups(padded) ==
  IF Len(padded) < 4 THEN <<>>
  ELSE LET a == Sextet(padded[1])
           b == Sextet(padded[2])
           rest == DecodeGroups(SubSeq(padded, 5, Len(padded)))
       IN IF padded[3] = "="
            THEN <<a * 4 + (b \div 16)>> \o rest
          ELSE IF padded[4] = "="
            THEN LET c == Sextet(padded[3])
                 IN <<a * 4 + (b \div 16), (b % 16) * 16 + (c \div 4)>> \o rest
          ELSE LET c == Sextet(padded[3])
                   d == Sextet(padded[4])
               IN <<a * 4 + (b \div 16), (b % 16) * 16 + (c \div 4), (c % 4) * 64 + d>> \o rest

\* atob(padded): a string with one code unit per byte.
atob(padded) == DecodeGroups(padded)

\* U+FFFD, what toString('utf-8') puts for a malformed sequence.
ReplacementChar == 65533

IsContinuation(b) == 128 <= b /\ b <= 191

RECURSIVE Utf8Decode(_)
\* Buffer.toString('utf-8'): one code unit per one-, two- or three-byte
\* sequence, a surrogate pair per four-byte sequence.
Utf8Decode(bytes) ==
  IF bytes = <<>> THEN <<>>
  ELSE LET b1 == bytes[1] IN
    IF b1 < 128 THEN <<b1>> \o Utf8Decode(Tail(bytes))
    ELSE IF 194 <= b1 /\ b1 <= 223 /\ Len(bytes) >= 2 /\ IsContinuation(bytes[2])
      THEN <<(b1 - 192) * 64 + (bytes[2] - 128)>> \o Utf8Decode(SubSeq(bytes, 3, Len(bytes)))
    ELSE IF 224 <= b1 /\ b1 <= 239 /\ Len(bytes) >= 3
            /\ IsContinuation(bytes[2]) /\ IsContinuation(bytes[3])
      THEN <<(b1 - 224) * 4096 + (bytes[2] - 128) * 64 + (bytes[3] - 128)>>
             \o Utf8Decode(SubSeq(bytes, 4, Len(bytes)))
    ELSE IF 240 <= b1 /\ b1 <= 244 /\ Len(bytes) >= 4 /\ IsContinuation(bytes[2])
            /\ IsContinuation(bytes[3]) /\ IsContinuation(bytes[4])
      THEN LET cp == (b1 - 240) * 262144 + (bytes[2] - 128) * 4096
                       + (bytes[3] - 128) * 64 + (bytes[4] - 128) - 65536
           IN <<55296 + (cp \div 1024), 56320 + (cp % 1024)>>
                \o Utf8Decode(SubSeq(bytes, 5, Len(bytes)))
    ELSE <<ReplacementChar>> \o Utf8Decode(Tail(bytes))

\* decodeBase64Url(data) of the Gmail translator.
gmailDecodeBase64Url(data, withAtob) ==
  LET padded == Pad(ToStandardBase64(data))
  IN IF withAtob THEN atob(padded) ELSE Utf8Decode(DecodeGroups(padded))

\* html: null
Null == <<-1>>

RECURSIVE processpart(_, _, _)
\* extractBody's processpart, on the pair {html, text} it assigns to.
processpart(part, acc, withAtob) ==
  IF part.mimeType = "text/html" /\ part.data # <<>>
    THEN [acc EXCEPT !.html = gmailDecodeBase64Url(part.data, withAtob)]
  ELSE IF part.mimeType = "text/plain" /\ part.data # <<>>
    THEN [acc EXCEPT !.text = gmailDecodeBase64Url(part.data, withAtob)]
  ELSE IF part.parts # <<>>
    THEN LET RECURSIVE each(_, _)
             each(i, a) == IF i > Len(part.parts) THEN a
                           ELSE each(i + 1, processpart(part.parts[i], a, withAtob))
         IN each(1, acc)
  ELSE acc

\* extractBody(payload)
extractBody(part, withAtob) == processpart(part, [html |-> Null, text |-> <<>>], withAtob)

RECURSIVE processPart(_, _)
\* extractAttachments' processPart, on the array it pushes to.
processPart(part, acc) ==
  LET pushed == IF part.attachmentId # 0 /\ part.filename # ""
                  THEN Append(acc, [id |-> part.attachmentId, filename |-> part.filename,
                                    mimeType |-> part.mimeType])
                  ELSE acc
      RECURSIVE each(_, _)
      each(i, a) == IF i > Len(part.parts) THEN a
                    ELSE each(i + 1, processPart(part.parts[i], a))
  IN each(1, pushed)

\* extractAttachments(payload, message.id)
extractAttachments(part) == processPart(part, <<>>)

\* Leaf parts: "QQ" is "A", "w6k" is e-acute in UTF-8, "PGI-" is "<b>".
Leaves ==
  {[mimeType |-> "text/plain", filename |-> "", attachmentId |-> 0,
    data |-> <<"Q", "Q">>, parts |-> <<>>],
   [mimeType |-> "text/plain", filename |-> "", attachmentId |-> 0,
    data |-> <<"w", "6", "k">>, parts |-> <<>>],
   [mimeType |-> "text/html", filename |-> "", attachmentId |-> 0,
    data |-> <<"P", "G", "I", "-">>, parts |-> <<>>],
   [mimeType |-> "application/pdf", filename |-> "a.pdf", attachmentId |-> 1,
    data |-> <<>>, parts |-> <<>>],
   [mimeType |-> "image/png", filename |-> "logo.png", attachmentId |-> 0,
    data |-> <<"Q", "Q">>, parts |-> <<>>]}

\* Containers: a multipart, or a forwarded message that Gmail lists with its
\* own filename and attachment id and with the parts of the inner message.
Containers(children) ==
  {[mimeType |-> "multipart/mixed", filename |-> "", attachmentId |-> 0,
    data |-> <<>>, parts |-> children],
   [mimeType |-> "message/rfc822", filename |-> "fwd.eml", attachmentId |-> 2,
    data |-> <<>>, parts |-> children]}

RECURSIVE PartTrees(_)
\* Part trees nested at most d deep.
PartTrees(d) ==
  IF d = 0 THEN Leaves
  ELSE Leaves \cup UNION {Containers(ps) : ps \in SeqsUpTo(PartTrees(d - 1), MaxWidth) \ {<<>>}}

\* parseGmailMessage(message)
ParseGmailMessage ==
  /\ ~translated
  /\ translated' = TRUE
  /\ email' = [folder |-> folderLabel(labelIds),
               isRead |-> "UNREAD" \notin Range(labelIds),
               isStarred |-> "STARRED" \in Range(labelIds),
               isDraft |-> "DRAFT" \in Range(labelIds)]
  /\ body' = extractBody(payload, hasAtob)
  /\ attachments' = extractAttachments(payload)
  /\ UNCHANGED <<labelIds, payload, hasAtob>>
  /\ UNCHANGED <<retryVars, streamVars, watchVars, connectVars, callsVars, backoffVars, addressVars,
                 listVars,
                 codecVars,
                 sendVars,
                 moveVars>>

\* A message as messages.get returns it: any list of labels on a one-part
\* message, or any part tree on a message in the inbox.
TranslateInit ==
  /\ \/ /\ labelIds \in SeqsUpTo(GmailLabels, MaxLabels)
        /\ payload \in {p \in Leaves : p.mimeType = "text/html"}
     \/ /\ labelIds = <<"INBOX">>
        /\ payload \in PartTrees(MaxDepth)
  /\ hasAtob \in BOOLEAN
  /\ translated = FALSE
  /\ email = <<>>
  /\ body = <<>>
  /\ attachments = <<>>
  /\ RetryStart({"get"})
  /\ retry = [off |-> TRUE, attempts |-> Absent]
  /\ provider = "gmail"
  /\ StreamIdle
  /\ MoveIdle
  /\ SendIdle
  /\ CodecIdle
  /\ ListIdle
  /\ WatchIdle
  /\ ConnectIdle
  /\ CallsIdle
  /\ BackoffIdle
  /\ AddressIdle

TranslateNext == ParseGmailMessage

SpecTranslate == TranslateInit /\ [][TranslateNext]_vars

\* The folder tags on the message, as positions of the priority order
\* INBOX > SENT > DRAFT > TRASH > SPAM.
PresentPriorities == {j \in DOMAIN FolderLabels : FolderLabels[j] \in Range(labelIds)}

\* C17: Email.folder is the highest-priority folder tag among the message's
\* tags (INBOX > SENT > DRAFT > TRASH > SPAM), whatever the order the tags are
\* listed in, and INBOX when the message carries none of them.
C17_FolderByPriority ==
  translated =>
    email.folder = (IF PresentPriorities = {} THEN "INBOX"
                    ELSE FolderLabels[CHOOSE j \in PresentPriorities :
                                        \A k \in PresentPriorities : j <= k])

RECURSIVE LeavesInOrder(_)
\* The leaves of a part tree in depth-first document order.
LeavesInOrder(part) ==
  IF part.parts = <<>> THEN <<part>>
  ELSE LET RECURSIVE cat(_)
           cat(i) == IF i > Len(part.parts) THEN <<>>
                     ELSE LeavesInOrder(part.parts[i]) \o cat(i + 1)
       IN cat(1)

\* The decoded content of the first leaf of the MIME type that has inline
\* content, or `none`.
FirstLeafContent(mime, none) ==
  LET ls == LeavesInOrder(payload)
      hits == {i \in DOMAIN ls : ls[i].mimeType = mime /\ ls[i].data # <<>>}
  IN IF hits = {} THEN none
     ELSE gmailDecodeBase64Url(ls[CHOOSE i \in hits : \A j \in hits : i <= j].data, hasAtob)

\* C18: Email.body.text is the content of the first text/plain leaf with
\* inline content in document order and Email.body.html that of the first
\* text/html leaf; a later leaf never overwrites an earlier one; without such a
\* leaf the result is {html: null, text: ''}.
C18_FirstLeafWins ==
  translated =>
    /\ body.text = FirstLeafContent("text/plain", <<>>)
    /\ body.html = FirstLeafContent("text/html", Null)

\* C19: the recorded attachments are exactly the leaf parts that carry both a
\* filename and an attachment id, in document order; a container is never
\* recorded.
C19_OnlyLeavesRecorded ==
  translated =>
    attachments =
      SelectSeq([i \in DOMAIN LeavesInOrder(payload) |->
                   [id |-> LeavesInOrder(payload)[i].attachmentId,
                    filename |-> LeavesInOrder(payload)[i].filename,
                    mimeType |-> LeavesInOrder(payload)[i].mimeType]],
                LAMBDA a : a.id # 0 /\ a.filename # "")

(***************************************************************************)
(* The parser package's address functions (parseAddress, formatAddress).   *)
(*                                                                         *)
(* parseAddress matches the trimmed input against its pattern: an         *)
(* optional group (optional quote, name without quote or less-than sign,   *)
(* optional quote, whitespace), an optional less-than sign, local@domain   *)
(* without greater-than, at sign or whitespace, an optional greater-than   *)
(* sign, end of input.  A match is fixed by six choices, which the         *)
(* backtracking matcher tries in this order of preference: enter the       *)
(* optional group (g), take the opening quote (q1), the longest name (n),  *)
(* take the closing quote (q2), the longest run of whitespace (w), take    *)
(* the less-than sign (lt).  The match returned is the first in that       *)
(* order.                                                                  *)
(***************************************************************************)

\* Address.name is undefined
UndefinedName == <<"undefined">>

\* \s
IsWhitespace(c) == c = " "

RECURSIVE Trim(_)
\* String.prototype.trim
Trim(str) ==
  IF str = <<>> THEN <<>>
  ELSE IF IsWhitespace(str[1]) THEN Trim(Tail(str))
  ELSE IF IsWhitespace(str[Len(str)]) THEN Trim(SubSeq(str, 1, Len(str) - 1))
  ELSE str

\* a character of the name: neither a quote nor a less-than sign
IsNameChar(c) == c \notin {"\"", "<"}

\* [^>@\s]
IsAddrChar(c) == c \notin {">", "@"} /\ ~IsWhitespace(c)

\* The part of `rest` the second group captures when `rest` matches
\* ([^>@\s]+@[^>@\s]+)>?$
EmailCapture(rest) ==
  IF rest # <<>> /\ rest[Len(rest)] = ">" THEN SubSeq(rest, 1, Len(rest) - 1) ELSE rest

\* `rest` matches ([^>@\s]+@[^>@\s]+)>?$
EmailMatches(rest) ==
  LET core == EmailCapture(rest)
  IN \E k \in 2..(Len(core) - 1) :
       /\ core[k] = "@"
       /\ \A j \in DOMAIN core : j # k => IsAddrChar(core[j])

\* Where the text after the choices of a match begins (0-based offset).
RestOffset(m) == m.q1 + m.n + m.q2 + m.w + m.lt

\* The matches of the pattern on str.  An iteration of the optional group
\* that consumes nothing is not a match of the group.
AddressMatches(str) ==
  {m \in [g : {0, 1}, q1 : {0, 1}, n : 0..Len(str), q2 : {0, 1}, w : 0..Len(str), lt : {0, 1}] :
     /\ RestOffset(m) <= Len(str)
     /\ m.g = 0 => (m.q1 = 0 /\ m.n = 0 /\ m.q2 = 0 /\ m.w = 0)
     /\ m.g = 1 => m.q1 + m.n + m.q2 + m.w > 0
     /\ m.q1 = 1 => str[1] = "\""
     /\ \A i \in (m.q1 + 1)..(m.q1 + m.n) : IsNameChar(str[i])
     /\ m.q2 = 1 => str[m.q1 + m.n + 1] = "\""
     /\ \A i \in (m.q1 + m.n + m.q2 + 1)..(m.q1 + m.n + m.q2 + m.w) : IsWhitespace(str[i])
     /\ m.lt = 1 => str[RestOffset(m)] = "<"
     /\ EmailMatches(SubSeq(str, RestOffset(m) + 1, Len(str)))}

\* The rank of a match in the matcher's order of preference.
MatchRank(m, len) ==
  ((((m.g * 2 + m.q1) * (len + 1) + m.n) * 2 + m.q2) * (len + 1) + m.w) * 2 + m.lt

\* trimmed.match(...): the match found first.
FirstMatch(str) ==
  CHOOSE m \in AddressMatches(str) :
    \A o \in AddressMatches(str) : MatchRank(o, Len(str)) <= MatchRank(m, Len(str))

\* name?.trim() || undefined
NameOf(str, m) ==
  LET name == Trim(SubSeq(str, m.q1 + 1, m.q1 + m.n))
  IN IF m.g = 0 \/ name = <<>> THEN UndefinedName ELSE name

\* parseAddress(raw)
parseAddress(raw) ==
  LET trimmed == Trim(raw)
  IN IF AddressMatches(trimmed) = {}
       THEN [email |-> trimmed, name |-> UndefinedName]
       ELSE LET m == FirstMatch(trimmed)
            IN [email |-> Trim(EmailCapture(SubSeq(trimmed, RestOffset(m) + 1, Len(trimmed)))),
                name |-> NameOf(trimmed, m)]

\* formatAddress(address)
formatAddress(a) ==
  IF a.name # UndefinedName /\ a.name # <<>>
    THEN <<"\"">> \o a.name \o <<"\"", " ", "<">> \o a.email \o <<">">>
    ELSE a.email

\* Address.name values explored: undefined, empty, B, Bo, B o, B after a
\* space, B before a quote, B after a less-than sign.
AddressNames ==
  {UndefinedName, <<>>, <<"B">>, <<"B", "o">>, <<"B", " ", "o">>, <<" ", "B">>,
   <<"B", "\"">>, <<"<", "B">>}

\* Address.email values explored (non-empty): a@h, ad@h, abc@h, a.b@c.d, x.
AddressEmails ==
  {<<"a", "@", "h">>, <<"a", "d", "@", "h">>, <<"a", "b", "c", "@", "h">>,
   <<"a", ".", "b", "@", "c", ".", "d">>, <<"x">>}

\* formatAddress(a)
FormatAddress ==
  /\ addressPc = "input"
  /\ formatted' = formatAddress(address)
  /\ addressPc' = "formatted"
  /\ UNCHANGED <<address, parsed>>
  /\ UNCHANGED <<retryVars, streamVars, watchVars, connectVars, callsVars, backoffVars,
                 translateVars,
                 listVars,
                 codecVars,
                 sendVars,
                 moveVars>>

\* parseAddress of what formatAddress returned
ParseAddress ==
  /\ addressPc = "formatted"
  /\ parsed' = parseAddress(formatted)
  /\ addressPc' = "parsed"
  /\ UNCHANGED <<address, formatted>>
  /\ UNCHANGED <<retryVars, streamVars, watchVars, connectVars, callsVars, backoffVars,
                 translateVars,
                 listVars,
                 codecVars,
                 sendVars,
                 moveVars>>

AddressInit ==
  /\ address \in [email : AddressEmails, name : AddressNames]
  /\ formatted = <<>>
  /\ parsed = <<>>
  /\ addressPc = "input"
  /\ RetryStart({"get"})
  /\ retry = [off |-> TRUE, attempts |-> Absent]
  /\ provider = "mock"
  /\ StreamIdle
  /\ MoveIdle
  /\ SendIdle
  /\ CodecIdle
  /\ ListIdle
  /\ WatchIdle
  /\ ConnectIdle
  /\ CallsIdle
  /\ BackoffIdle
  /\ TranslateIdle

AddressNext ==
  \/ FormatAddress
  \/ ParseAddress

SpecAddress == AddressInit /\ [][AddressNext]_vars

\* C20: for every Address a with a non-empty email, parseAddress(formatAddress(a))
\* has the same email and the same name (an empty name read as undefined); a
\* nameless a is formatted as the bare addr@host and parsed back to exactly
\* {email: addr@host}.
C20_AddressRoundTrip ==
  addressPc = "parsed" =>
    /\ parsed.email = address.email
    /\ parsed.name = (IF address.name = <<>> THEN UndefinedName ELSE address.name)

(***************************************************************************)
(* Address lists: parseAddressList (parser package) and parseAddresses     *)
(* (Gmail translator).  Both split the header at every comma that is       *)
(* followed by an even number of quote characters and hand each piece to   *)
(* their own parseAddress.  The translator's parseAddress has the pattern  *)
(* of the parser package's with a laxer second group: one or more          *)
(* characters other than the greater-than sign.                            *)
(***************************************************************************)

\* Most addresses in a header.
MaxListLen == 2

\* The number of quote characters in str.
QuoteCount(str) == Cardinality({i \in DOMAIN str : str[i] = "\""})

\* The commas the split pattern matches: the lookahead accepts the rest of the
\* input when it holds an even number of quotes.
SplitPoints(str) ==
  {i \in DOMAIN str : str[i] = "," /\ QuoteCount(SubSeq(str, i + 1, Len(str))) % 2 = 0}

RECURSIVE SplitFrom(_, _)
\* raw.split(pattern), from position `from` on
SplitFrom(str, from) ==
  LET later == {i \in SplitPoints(str) : i >= from}
  IN IF later = {} THEN <<SubSeq(str, from, Len(str))>>
     ELSE LET i == CHOOSE j \in later : \A k \in later : j <= k
          IN <<SubSeq(str, from, i - 1)>> \o SplitFrom(str, i + 1)

\* addr.email.includes('@')
IncludesAt(str) == \E i \in DOMAIN str : str[i] = "@"

\* parseAddressList(raw) of the parser package
parseAddressList(raw) ==
  IF Trim(raw) = <<>> THEN <<>>
  ELSE LET parts == SplitFrom(raw, 1)
       IN SelectSeq([i \in DOMAIN parts |-> parseAddress(parts[i])],
                    LAMBDA a : IncludesAt(a.email))

\* `rest` matches the translator's second group, an optional greater-than
\* sign and the end of input.
gmailEmailMatches(rest) ==
  LET core == EmailCapture(rest)
  IN core # <<>> /\ \A j \in DOMAIN core : core[j] # ">"

\* The matches of the translator's pattern on str.
gmailAddressMatches(str) ==
  {m \in [g : {0, 1}, q1 : {0, 1}, n : 0..Len(str), q2 : {0, 1}, w : 0..Len(str), lt : {0, 1}] :
     /\ RestOffset(m) <= Len(str)
     /\ m.g = 0 => (m.q1 = 0 /\ m.n = 0 /\ m.q2 = 0 /\ m.w = 0)
     /\ m.g = 1 => m.q1 + m.n + m.q2 + m.w > 0
     /\ m.q1 = 1 => str[1] = "\""
     /\ \A i \in (m.q1 + 1)..(m.q1 + m.n) : IsNameChar(str[i])
     /\ m.q2 = 1 => str[m.q1 + m.n + 1] = "\""
     /\ \A i \in (m.q1 + m.n + m.q2 + 1)..(m.q1 + m.n + m.q2 + m.w) : IsWhitespace(str[i])
     /\ m.lt = 1 => str[RestOffset(m)] = "<"
     /\ gmailEmailMatches(SubSeq(str, RestOffset(m) + 1, Len(str)))}

\* raw.match(...) of the translator: the match found first.
gmailFirstMatch(str) ==
  CHOOSE m \in gmailAddressMatches(str) :
    \A o \in gmailAddressMatches(str) : MatchRank(o, Len(str)) <= MatchRank(m, Len(str))

\* parseAddress(raw) of the Gmail translator
gmailParseAddress(raw) ==
  IF gmailAddressMatches(raw) = {}
    THEN [email |-> Trim(raw), name |-> UndefinedName]
    ELSE LET m == gmailFirstMatch(raw)
         IN [email |-> Trim(EmailCapture(SubSeq(raw, RestOffset(m) + 1, Len(raw)))),
             name |-> NameOf(raw, m)]

\* parseAddresses(raw) of the Gmail translator
parseAddresses(raw) ==
  IF raw = <<>> THEN <<>>
  ELSE LET parts == SplitFrom(raw, 1)
       IN SelectSeq([i \in DOMAIN parts |-> gmailParseAddress(Trim(parts[i]))],
                    LAMBDA a : a.email # <<>>)

\* The addresses a header is written from: D, J and J as names, j@x and ja@y
\* as addresses, in the four forms of the grammar.
ListElements ==
  {[form |-> "quoted", name |-> <<"D", ",", " ", "J">>, email |-> <<"j", "@", "x">>],
   [form |-> "quoted", name |-> <<"J">>, email |-> <<"j", "a", "@", "y">>],
   [form |-> "named", name |-> <<"J">>, email |-> <<"j", "@", "x">>],
   [form |-> "angle", name |-> UndefinedName, email |-> <<"j", "@", "x">>],
   [form |-> "angle", name |-> UndefinedName, email |-> <<"j", "a", "@", "y">>],
   [form |-> "bare", name |-> UndefinedName, email |-> <<"j", "@", "x">>],
   [form |-> "bare", name |-> UndefinedName, email |-> <<"j", "a", "@", "y">>]}

\* One address as a header carries it.
RenderElement(e) ==
  IF e.form = "quoted" THEN <<"\"">> \o e.name \o <<"\"", " ", "<">> \o e.email \o <<">">>
  ELSE IF e.form = "named" THEN e.name \o <<" ", "<">> \o e.email \o <<">">>
  ELSE IF e.form = "angle" THEN <<"<">> \o e.email \o <<">">>
  ELSE e.email

RECURSIVE RenderList(_)
\* The header value: the addresses separated by a comma and a space.
RenderList(es) ==
  IF es = <<>> THEN <<>>
  ELSE IF Len(es) = 1 THEN RenderElement(es[1])
  ELSE RenderElement(es[1]) \o <<",", " ">> \o RenderList(Tail(es))

\* parseAddressList(header) is called.
ParseAddressList ==
  /\ "parser" \notin listParsed
  /\ parserList' = parseAddressList(rawList)
  /\ listParsed' = listParsed \cup {"parser"}
  /\ UNCHANGED <<listElements, rawList, gmailList>>
  /\ UNCHANGED <<retryVars, streamVars, watchVars, connectVars, callsVars, backoffVars,
                 translateVars, addressVars,
                 codecVars,
                 sendVars,
                 moveVars>>

\* parseAddresses(header) is called.
ParseAddresses ==
  /\ "gmail" \notin listParsed
  /\ gmailList' = parseAddresses(rawList)
  /\ listParsed' = listParsed \cup {"gmail"}
  /\ UNCHANGED <<listElements, rawList, parserList>>
  /\ UNCHANGED <<retryVars, streamVars, watchVars, connectVars, callsVars, backoffVars,
                 translateVars, addressVars,
                 codecVars,
                 sendVars,
                 moveVars>>

ListInit ==
  /\ listElements \in SeqsUpTo(ListElements, MaxListLen) \ {<<>>}
  /\ rawList = RenderList(listElements)
  /\ parserList = <<>>
  /\ gmailList = <<>>
  /\ listParsed = {}
  /\ RetryStart({"get"})
  /\ retry = [off |-> TRUE, attempts |-> Absent]
  /\ provider = "mock"
  /\ StreamIdle
  /\ MoveIdle
  /\ SendIdle
  /\ CodecIdle
  /\ WatchIdle
  /\ ConnectIdle
  /\ CallsIdle
  /\ BackoffIdle
  /\ TranslateIdle
  /\ AddressIdle

ListNext ==
  \/ ParseAddressList
  \/ ParseAddresses

SpecList == ListInit /\ [][ListNext]_vars

\* The addresses the grammar reads from the header.
ListedAddresses == [i \in DOMAIN listElements |->
                      [email |-> listElements[i].email, name |-> listElements[i].name]]

\* C21: both list parsers split only at commas outside quotes and read every
\* element by the grammar quoted-name <addr>, name <addr>, <addr> or bare addr;
\* a quoted name with a comma followed by a bare address gives exactly the two
\* addresses, the second without a name.
C21_ListParsing ==
  /\ "parser" \in listParsed => parserList = ListedAddresses
  /\ "gmail" \in listParsed => gmailList = ListedAddresses

(***************************************************************************)
(* base64url in the parser package (encodeBase64Url, decodeBase64Url).     *)
(*                                                                         *)
(* Text is a sequence of UTF-16 code units; a character outside the basic  *)
(* plane is a surrogate pair.  encodeURIComponent followed by unescape, and *)
(* Buffer.from(string), both give the UTF-8 bytes of the text; the global  *)
(* decodeURIComponent over percent-escaped bytes is a strict UTF-8 decoder. *)
(***************************************************************************)

\* Longest text explored, in characters.
MaxTextLen == 3

IsHighSurrogate(u) == 55296 <= u /\ u <= 56319

IsLowSurrogate(u) == 56320 <= u /\ u <= 57343

RECURSIVE Utf8Encode(_)
\* The UTF-8 bytes of well-formed UTF-16 text.
Utf8Encode(units) ==
  IF units = <<>> THEN <<>>
  ELSE LET u == units[1] IN
    IF u < 128 THEN <<u>> \o Utf8Encode(Tail(units))
    ELSE IF u < 2048
      THEN <<192 + (u \div 64), 128 + (u % 64)>> \o Utf8Encode(Tail(units))
    ELSE IF IsHighSurrogate(u) /\ Len(units) >= 2 /\ IsLowSurrogate(units[2])
      THEN LET cp == 65536 + (u - 55296) * 1024 + (units[2] - 56320)
           IN <<240 + (cp \div 262144), 128 + ((cp \div 4096) % 64),
                128 + ((cp \div 64) % 64), 128 + (cp % 64)>>
                \o Utf8Encode(SubSeq(units, 3, Len(units)))
    ELSE <<224 + (u \div 4096), 128 + ((u \div 64) % 64), 128 + (u % 64)>>
           \o Utf8Encode(Tail(units))

RECURSIVE EncodeGroups(_)
\* btoa / toString('base64'): padded base64 of the bytes, three at a time.
EncodeGroups(bytes) ==
  IF bytes = <<>> THEN <<>>
  ELSE LET a == bytes[1]
           c1 == Base64Chars[(a \div 4) + 1]
       IN IF Len(bytes) = 1
            THEN <<c1, Base64Chars[(a % 4) * 16 + 1], "=", "=">>
          ELSE LET b == bytes[2]
                   c2 == Base64Chars[(a % 4) * 16 + (b \div 16) + 1]
               IN IF Len(bytes) = 2
                    THEN <<c1, c2, Base64Chars[(b % 16) * 4 + 1], "=">>
                  ELSE LET c == bytes[3]
                       IN <<c1, c2, Base64Chars[(b % 16) * 4 + (c \div 64) + 1],
                            Base64Chars[(c % 64) + 1]>>
                            \o EncodeGroups(SubSeq(bytes, 4, Len(bytes)))

RECURSIVE StripPadding(_)
\* .replace(/=+$/, '')
StripPadding(base64) ==
  IF base64 # <<>> /\ base64[Len(base64)] = "="
    THEN StripPadding(SubSeq(base64, 1, Len(base64) - 1))
    ELSE base64

\* .replace(/\+/g, '-').replace(/\//g, '_')
ToUrlSafe(base64) ==
  [i \in DOMAIN base64 |->
     IF base64[i] = "+" THEN "-" ELSE IF base64[i] = "/" THEN "_" ELSE base64[i]]

\* encodeBase64Url(data): both branches take the base64 of the UTF-8 bytes.
encodeBase64Url(data, withBtoa) ==
  LET base64 == IF withBtoa THEN EncodeGroups(Utf8Encode(data))
                ELSE EncodeGroups(Utf8Encode(data))
  IN StripPadding(ToUrlSafe(base64))

\* decodeURIComponent threw a URIError.
URIError == <<-2>>

RECURSIVE WellFormedUtf8(_)
\* The bytes are one-, two-, three- and four-byte sequences with their
\* continuation bytes.
WellFormedUtf8(bytes) ==
  IF bytes = <<>> THEN TRUE
  ELSE LET b1 == bytes[1]
           n == IF b1 < 128 THEN 1
                ELSE IF 194 <= b1 /\ b1 <= 223 THEN 2
                ELSE IF 224 <= b1 /\ b1 <= 239 THEN 3
                ELSE IF 240 <= b1 /\ b1 <= 244 THEN 4
                ELSE 0
       IN /\ n > 0
          /\ Len(bytes) >= n
          /\ \A i \in 2..n : IsContinuation(bytes[i])
          /\ WellFormedUtf8(SubSeq(bytes, n + 1, Len(bytes)))

\* decodeURIComponent of the percent-escaped code units of a binary string
decodeURIComponent(bytes) ==
  IF WellFormedUtf8(bytes) THEN Utf8Decode(bytes) ELSE URIError

\* Variant: the atob branch returns the binary string as it is.
decodeBase64Url_binary(data, withAtob) ==
  LET padded == Pad(ToStandardBase64(data))
  IN IF withAtob THEN atob(padded) ELSE Utf8Decode(DecodeGroups(padded))

\* decodeBase64Url(data) of the parser package
decodeBase64Url(data, withAtob) ==
  LET padded == Pad(ToStandardBase64(data))
  IN IF withAtob THEN decodeURIComponent(atob(padded))
     ELSE Utf8Decode(DecodeGroups(padded))

\* Characters of the explored texts: A, the greater-than sign and the
\* question mark (their base64 has + or /), e-acute, a CJK ideograph and an
\* emoji (a surrogate pair).
TextChars == {<<65>>, <<62>>, <<63>>, <<233>>, <<26085>>, <<55357, 56832>>}

RECURSIVE Concat(_)
Concat(seqs) == IF seqs = <<>> THEN <<>> ELSE seqs[1] \o Concat(Tail(seqs))

\* encodeBase64Url(text)
EncodeBase64Url ==
  /\ codecPc = "input"
  /\ encoded' = encodeBase64Url(codecText, hasBtoa)
  /\ codecPc' = "encoded"
  /\ UNCHANGED <<codecText, hasBtoa, codecAtob, decoded>>
  /\ UNCHANGED <<retryVars, streamVars, watchVars, connectVars, callsVars, backoffVars,
                 translateVars, addressVars, listVars,
                 sendVars,
                 moveVars>>

\* decodeBase64Url of what encodeBase64Url returned
DecodeBase64Url ==
  /\ codecPc = "encoded"
  /\ decoded' = decodeBase64Url(encoded, codecAtob)
  /\ codecPc' = "decoded"
  /\ UNCHANGED <<codecText, hasBtoa, codecAtob, encoded>>
  /\ UNCHANGED <<retryVars, streamVars, watchVars, connectVars, callsVars, backoffVars,
                 translateVars, addressVars, listVars,
                 sendVars,
                 moveVars>>

CodecInit ==
  /\ codecText \in {Concat(cs) : cs \in SeqsUpTo(TextChars, MaxTextLen)}
  /\ hasBtoa \in BOOLEAN
  /\ codecAtob \in BOOLEAN
  /\ encoded = <<>>
  /\ decoded = <<>>
  /\ codecPc = "input"
  /\ RetryStart({"get"})
  /\ retry = [off |-> TRUE, attempts |-> Absent]
  /\ provider = "mock"
  /\ StreamIdle
  /\ MoveIdle
  /\ SendIdle
  /\ WatchIdle
  /\ ConnectIdle
  /\ CallsIdle
  /\ BackoffIdle
  /\ TranslateIdle
  /\ AddressIdle
  /\ ListIdle

CodecNext ==
  \/ EncodeBase64Url
  \/ DecodeBase64Url

SpecCodec == CodecInit /\ [][CodecNext]_vars

\* C22: decodeBase64Url(encodeBase64Url(s)) = s for every well-formed text s,
\* ASCII or multi-byte, with and without atob / btoa; the encoded form is
\* unpadded and URL-safe.
C22_Base64UrlRoundTrip ==
  /\ codecPc # "input" => \A i \in DOMAIN encoded : encoded[i] \notin {"=", "+", "/"}
  /\ codecPc = "decoded" => decoded = codecText

\* A text with a multi-byte character whose encoding lost padding was decoded
\* on the atob branch.
C22_Witness ==
  /\ codecPc = "decoded"
  /\ codecAtob
  /\ hasBtoa
  /\ \E i \in DOMAIN codecText : codecText[i] > 127
  /\ Len(encoded) % 4 # 0
  /\ \E i \in DOMAIN encoded : encoded[i] \in {"-", "_"}

\* The texts whose base64url UTF-8 encodings the explored leaves carry: A,
\* e-acute, and a bold tag.
BodyTexts == {<<65>>, <<233>>, <<60, 98, 62>>}

\* C23: for a text/plain or text/html leaf whose inline data is the base64url
\* encoding of the UTF-8 bytes of a text s, extractBody returns exactly s, for
\* non-ASCII s too and whether or not the runtime has atob.
C23_BodyDecodingInvertsUtf8 ==
  translated =>
    \A t \in BodyTexts :
      (payload.parts = <<>> /\ payload.data = encodeBase64Url(t, TRUE)) =>
        /\ payload.mimeType = "text/plain" => body.text = t
        /\ payload.mimeType = "text/html" => body.html = t

----------------------------------------------------------------------------
\* GmailProvider.send and encodeEmail.  The message is kept as the array of
\* lines encodeEmail builds before joining them with CRLF; the base64url step
\* applied to the joined text is encodeBase64Url above.

MaxAttachments == 2

\* An option the caller left out.
Unset == "undefined"

\* JavaScript truthiness of an optional string: neither undefined nor empty.
Truthy(s) == s # Unset /\ s # ""

\* Array.prototype.join.
RECURSIVE Join(_, _)
Join(strs, sep) ==
  IF strs = <<>> THEN ""
  ELSE IF Len(strs) = 1 THEN strs[1]
  ELSE strs[1] \o sep \o Join(Tail(strs), sep)

\* references.map wrapping every id in angle brackets.
Bracketed(refs) == [i \in DOMAIN refs |-> "<" \o refs[i] \o ">"]

\* The custom header lines, in Object.entries order.
HeaderLines(hs) == [i \in DOMAIN hs |-> hs[i].name \o ": " \o hs[i].value]

\* encodeEmail, header part: To, optional Cc, Bcc and Reply-To, Subject,
\* optional In-Reply-To and References, custom headers.
envelopeHeaders(o) ==
  <<"To: " \o Join(o.to, ", ")>>
  \o (IF o.cc # <<>> THEN <<"Cc: " \o Join(o.cc, ", ")>> ELSE <<>>)
  \o (IF o.bcc # <<>> THEN <<"Bcc: " \o Join(o.bcc, ", ")>> ELSE <<>>)
  \o (IF Truthy(o.replyTo) THEN <<"Reply-To: " \o o.replyTo>> ELSE <<>>)
  \o <<"Subject: " \o o.subject>>
  \o (IF Truthy(o.inReplyTo) THEN <<"In-Reply-To: <" \o o.inReplyTo \o ">">> ELSE <<>>)
  \o (IF o.references # <<>>
      THEN <<"References: " \o Join(Bracketed(o.references), " ")>> ELSE <<>>)
  \o HeaderLines(o.headers)

\* Variant: only text together with HTML makes a multipart message.
IsMultipart_onlyBoth(o) == Truthy(o.html) /\ Truthy(o.text)

\* encodeEmail: the test that selects the multipart branch.
IsMultipart(o) == o.attachments # <<>> \/ (Truthy(o.html) /\ Truthy(o.text))

PlainType == "Content-Type: text/plain; charset=utf-8"
HtmlType == "Content-Type: text/html; charset=utf-8"
MixedType(b) == "Content-Type: multipart/mixed; boundary=\"" \o b \o "\""
MimeVersion == "MIME-Version: 1.0"
Delimiter(b) == "--" \o b
Terminator(b) == "--" \o b \o "--"

\* encodeEmail, body part, with b the boundary drawn for a multipart
\* message.  The attachments are not written.
envelopeBody(o, b) ==
  IF IsMultipart(o)
  THEN <<MixedType(b), MimeVersion, "">>
       \o (IF Truthy(o.text) THEN <<Delimiter(b), PlainType, "", o.text>> ELSE <<>>)
       \o (IF Truthy(o.html) THEN <<Delimiter(b), HtmlType, "", o.html>> ELSE <<>>)
       \o <<Terminator(b)>>
  ELSE IF Truthy(o.html)
  THEN <<HtmlType, MimeVersion, "", o.html>>
  ELSE <<PlainType, MimeVersion, "", IF o.text = Unset THEN "" ELSE o.text>>

encodeEmail(o, b) == envelopeHeaders(o) \o envelopeBody(o, b)

\* The boundaries Date.now and Math.random can yield.
Boundaries == {"----faktoor-1-k3x", "----faktoor-2-"}

AttachmentInputs == {"a.pdf", "b.png"}

SendOptionValues ==
  {[to |-> <<"r@x.io">>, cc |-> cc, bcc |-> <<>>, replyTo |-> Unset,
    subject |-> "s", text |-> t, html |-> h, attachments |-> as,
    inReplyTo |-> irt, references |-> <<>>, headers |-> <<>>] :
     cc \in {<<>>, <<"c@x.io", "d@x.io">>},
     t \in {Unset, "", "hello"},
     h \in {Unset, "<p>hi</p>"},
     as \in SeqsUpTo(AttachmentInputs, MaxAttachments),
     irt \in {Unset, "m1"}}

\* GmailProvider.send up to the request: the message is encoded and
\* messages.send is issued.
ProviderSend ==
  /\ sendPc = "idle"
  /\ \E b \in Boundaries :
       /\ envelope' = encodeEmail(sendOptions, b)
       /\ boundary' = IF IsMultipart(sendOptions) THEN b ELSE ""
  /\ sendPc' = "sending"
  /\ UNCHANGED <<sendOptions, sendResult>>
  /\ UNCHANGED <<retryVars, streamVars, watchVars, connectVars, callsVars, backoffVars, translateVars, addressVars, listVars, codecVars,
                 moveVars>>

\* messages.send settles: a SendResult is returned, or the request's error
\* is thrown.
SendResponse ==
  /\ sendPc = "sending"
  /\ \E ok \in BOOLEAN : sendResult' = IF ok THEN "success" ELSE "failure"
  /\ sendPc' = "done"
  /\ UNCHANGED <<sendOptions, envelope, boundary>>
  /\ UNCHANGED <<retryVars, streamVars, watchVars, connectVars, callsVars, backoffVars, translateVars, addressVars, listVars, codecVars,
                 moveVars>>

SendInit ==
  /\ sendOptions \in SendOptionValues
  /\ envelope = <<>>
  /\ boundary = ""
  /\ sendPc = "idle"
  /\ sendResult = "none"
  /\ RetryStart({"get"})
  /\ retry = [off |-> TRUE, attempts |-> Absent]
  /\ provider = "mock"
  /\ StreamIdle
  /\ MoveIdle
  /\ WatchIdle
  /\ ConnectIdle
  /\ CallsIdle
  /\ BackoffIdle
  /\ TranslateIdle
  /\ AddressIdle
  /\ ListIdle
  /\ CodecIdle

SendNext == ProviderSend \/ SendResponse

SpecSend == SendInit /\ [][SendNext]_vars

\* The positions of a line in the envelope.
LinesEqual(l) == {i \in DOMAIN envelope : envelope[i] = l}

\* The lines after the caller's headers.
BodyStart == Len(envelopeHeaders(sendOptions)) + 1

\* The envelope carries exactly one Content-Type header for the whole message.
SinglePart(type, content) ==
  /\ envelope[BodyStart] = type
  /\ envelope[Len(envelope)] = content
  /\ \A i \in DOMAIN envelope :
       /\ i # BodyStart => envelope[i] \notin {PlainType, HtmlType}
       /\ \A b \in Boundaries :
            envelope[i] \notin {MixedType(b), Delimiter(b), Terminator(b)}

\* C24: text alone gives one text/plain part, HTML alone one text/html part;
\* text with HTML, or any attachment, gives one multipart container whose
\* sub-parts come plain first then HTML, each after a delimiter line, closed
\* by exactly one terminator line, the last line.
C24_BodyStructure ==
  sendPc # "idle" =>
    LET o == sendOptions
        hasText == Truthy(o.text)
        hasHtml == Truthy(o.html)
    IN /\ (hasText /\ ~hasHtml /\ o.attachments = <<>>) => SinglePart(PlainType, o.text)
       /\ (hasHtml /\ ~hasText /\ o.attachments = <<>>) => SinglePart(HtmlType, o.html)
       /\ ((hasText /\ hasHtml) \/ o.attachments # <<>>) =>
            /\ boundary \in Boundaries
            /\ envelope[BodyStart] = MixedType(boundary)
            /\ LinesEqual(MixedType(boundary)) = {BodyStart}
            /\ LinesEqual(Terminator(boundary)) = {Len(envelope)}
            /\ Cardinality(LinesEqual(PlainType)) = (IF hasText THEN 1 ELSE 0)
            /\ Cardinality(LinesEqual(HtmlType)) = (IF hasHtml THEN 1 ELSE 0)
            /\ \A i \in LinesEqual(PlainType) \cup LinesEqual(HtmlType) :
                 /\ i > BodyStart + 1
                 /\ envelope[i - 1] = Delimiter(boundary)
            /\ \A i \in LinesEqual(Delimiter(boundary)) :
                 envelope[i + 1] \in {PlainType, HtmlType}
            /\ \A i \in LinesEqual(PlainType), j \in LinesEqual(HtmlType) : i < j
            /\ \A i \in LinesEqual(PlainType) : envelope[i + 2] = o.text
            /\ \A i \in LinesEqual(HtmlType) : envelope[i + 2] = o.html

\* A message with text, HTML and an attachment was encoded as a container.
C24_Witness ==
  /\ sendPc = "done"
  /\ sendOptions.attachments # <<>>
  /\ Truthy(sendOptions.text)
  /\ Truthy(sendOptions.html)
  /\ LinesEqual(Terminator(boundary)) # {}

\* C25: a send that reports success carried every attachment: the envelope
\* has one multipart section per attachment beyond those of the text and the
\* HTML.
C25_AttachmentsCarried ==
  sendResult = "success" =>
    Cardinality({i \in DOMAIN envelope : \E b \in Boundaries : envelope[i] = Delimiter(b)})
      = (IF Truthy(sendOptions.text) THEN 1 ELSE 0)
        + (IF Truthy(sendOptions.html) THEN 1 ELSE 0)
        + Len(sendOptions.attachments)

----------------------------------------------------------------------------
\* GmailProvider.move followed by GmailProvider.get of the same message.

\* String.prototype.toLowerCase on the folder names explored.
ToLowerCase(str) ==
  CASE str = "Trash" -> "trash"
    [] str = "INBOX" -> "inbox"
    [] str = "Label_1" -> "label_1"
    [] OTHER -> str

\* folderToLabelId: the well-known names map to their tags, any other name
\* is taken to be a label id as it is.
folderToLabelId(folder) ==
  LET name == ToLowerCase(folder)
  IN CASE name = "inbox" -> "INBOX"
       [] name = "sent" -> "SENT"
       [] name = "drafts" -> "DRAFT"
       [] name = "trash" -> "TRASH"
       [] name = "spam" -> "SPAM"
       [] name = "starred" -> "STARRED"
       [] name = "important" -> "IMPORTANT"
       [] name = "all" -> "ALL"
       [] OTHER -> folder

\* The destinations given to move: well-known folders in several spellings
\* and a custom label.
MoveFolders == {"inbox", "INBOX", "Trash", "spam", "sent", "drafts", "starred", "Label_1"}

\* Labels a message on the backend carries.
MailLabels == GmailLabels \cup {"Label_1"}

\* The label lists without repetition.
MailLabelLists ==
  {ls \in SeqsUpTo(MailLabels, MaxLabels) : \A i, j \in DOMAIN ls : ls[i] = ls[j] => i = j}

\* The label list without the labels of a set.
RECURSIVE Without(_, _)
Without(labels, S) ==
  IF labels = <<>> THEN <<>>
  ELSE IF Head(labels) \in S THEN Without(Tail(labels), S)
  ELSE <<Head(labels)>> \o Without(Tail(labels), S)

\* The label list with a label put at position k, unless it is there already.
WithLabel(labels, l, k) ==
  IF l \in Range(labels) THEN labels
  ELSE SubSeq(labels, 1, k - 1) \o <<l>> \o SubSeq(labels, k, Len(labels))

\* The label lists the backend can hold after a modify: removals and the
\* addition applied in either order, the order of the list being its own.
modified(labels, req) ==
  {WithLabel(Without(labels, Range(req.removeLabelIds)), req.addLabelIds[1], k) :
     k \in 1..(Len(Without(labels, Range(req.removeLabelIds))) + 1)}
  \cup {Without(WithLabel(labels, req.addLabelIds[1], k), Range(req.removeLabelIds)) :
     k \in 1..(Len(labels) + 1)}

\* GmailProvider.move up to the request: messages.modify is issued once.
ProviderMove ==
  /\ movePc = "idle"
  /\ modifyRequests' = Append(modifyRequests,
       [addLabelIds |-> <<folderToLabelId(moveFolder)>>,
        removeLabelIds |-> <<"INBOX", "SPAM", "TRASH">>])
  /\ movePc' = "modifying"
  /\ UNCHANGED <<mailLabels, moveFolder, gotFolder>>
  /\ UNCHANGED <<retryVars, streamVars, sendVars, watchVars, connectVars, callsVars, backoffVars, translateVars, addressVars, listVars, codecVars>>

\* The modify request settles: the backend applied it and move resolves, or
\* it answered with an error and move rejects.
ModifyResponse ==
  /\ movePc = "modifying"
  /\ \/ /\ mailLabels' \in modified(mailLabels, modifyRequests[Len(modifyRequests)])
        /\ movePc' = "moved"
     \/ /\ movePc' = "failed"
        /\ UNCHANGED mailLabels
  /\ UNCHANGED <<moveFolder, modifyRequests, gotFolder>>
  /\ UNCHANGED <<retryVars, streamVars, sendVars, watchVars, connectVars, callsVars, backoffVars, translateVars, addressVars, listVars, codecVars>>

\* GmailProvider.get after the move: parseGmailMessage derives the folder
\* from the labels the backend returns.
GetMoved ==
  /\ movePc = "moved"
  /\ gotFolder' = folderLabel(mailLabels)
  /\ movePc' = "read"
  /\ UNCHANGED <<mailLabels, moveFolder, modifyRequests>>
  /\ UNCHANGED <<retryVars, streamVars, sendVars, watchVars, connectVars, callsVars, backoffVars, translateVars, addressVars, listVars, codecVars>>

MoveInit ==
  /\ mailLabels \in MailLabelLists
  /\ moveFolder \in MoveFolders
  /\ modifyRequests = <<>>
  /\ movePc = "idle"
  /\ gotFolder = ""
  /\ RetryStart({"get"})
  /\ retry = [off |-> TRUE, attempts |-> Absent]
  /\ provider = "mock"
  /\ StreamIdle
  /\ SendIdle
  /\ WatchIdle
  /\ ConnectIdle
  /\ CallsIdle
  /\ BackoffIdle
  /\ TranslateIdle
  /\ AddressIdle
  /\ ListIdle
  /\ CodecIdle

MoveNext == ProviderMove \/ ModifyResponse \/ GetMoved

SpecMove == MoveInit /\ [][MoveNext]_vars

\* C26: move issues exactly one modify request, adding the tag of the
\* destination and removing INBOX, SPAM and TRASH; the two sets never
\* intersect, and after a successful move the message carries the tag.
C26_MoveRequest ==
  /\ movePc # "idle" =>
       /\ Len(modifyRequests) = 1
       /\ modifyRequests[1].addLabelIds = <<folderToLabelId(moveFolder)>>
       /\ Range(modifyRequests[1].removeLabelIds) = {"INBOX", "SPAM", "TRASH"}
       /\ Range(modifyRequests[1].addLabelIds) \cap Range(modifyRequests[1].removeLabelIds) = {}
  /\ movePc \in {"moved", "read"} => folderToLabelId(moveFolder) \in Range(mailLabels)

\* C30: after a successful move to F, a following get returns an Email whose
\* folder is the tag of F.
C30_FolderAgreesWithMove ==
  movePc = "read" => gotFolder = folderToLabelId(moveFolder)

----------------------------------------------------------------------------
\* A facade call on the Gmail backend while the clock runs towards, and past,
\* the expiry of the stored token.  The clock is the one request reads when an
\* invocation starts; time that passes while a fetch is in flight shows at the
\* next start.

\* GmailApi.request with an expired token: AuthenticationError is thrown
\* ahead of the try block, with the same class whether or not a refresh token
\* is configured, so no catch rewraps it and no fetch is made.
ExpiredSettle ==
  /\ provider = "gmail"
  /\ op \in Ops
  /\ TokenExpired(expiresAt, now)
  /\ Settle(Rejected(AuthenticationError(invocations)), NoTransport)
  /\ UNCHANGED accepted

\* Time passes before the call or during a backoff sleep.
ClockAdvances ==
  /\ pc \in {"idle", "sleeping"}
  /\ now < MaxClock
  /\ now' = now + 1
  /\ UNCHANGED <<optionsKind, keyValid, accessToken, expiresAt, connected,
                 callerPc, callerOp, callerResult, callerCalls, tokenFetches, lastLifecycle>>
  /\ UNCHANGED <<retryVars, streamVars, sendVars, moveVars, watchVars, callsVars, backoffVars, translateVars, addressVars, listVars, codecVars>>

\* A connected client with OAuth options, with or without an expiry time.
ExpiredInit ==
  /\ RetryStart(Ops)
  /\ provider = "gmail"
  /\ optionsKind = "oauth"
  /\ keyValid = TRUE
  /\ accessToken = OAuthToken
  /\ expiresAt \in {Undefined, TokenLifetime}
  /\ now = 0
  /\ connected = TRUE
  /\ callerPc = <<>>
  /\ callerOp = <<>>
  /\ callerResult = <<>>
  /\ callerCalls = 0
  /\ tokenFetches = 0
  /\ lastLifecycle = "none"
  /\ StreamIdle
  /\ MoveIdle
  /\ SendIdle
  /\ CodecIdle
  /\ ListIdle
  /\ WatchIdle
  /\ CallsIdle
  /\ BackoffIdle
  /\ TranslateIdle
  /\ AddressIdle

ExpiredNext == FacadeCall \/ GmailSettle \/ ExpiredSettle \/ SleepDone \/ ClockAdvances

SpecExpired == ExpiredInit /\ [][ExpiredNext]_vars

\* An invocation that starts after the expiry sends no HTTP request, and it
\* settles as an AuthenticationError with retryable = false that ends the
\* facade call at once, the stored token and expiry being left as they were.
C27_Step ==
  /\ (invocations' = invocations + 1 /\ TokenExpired(expiresAt, now)) =>
       httpRequests' = httpRequests
  /\ (pc = "inflight" /\ pc' # "inflight" /\ TokenExpired(expiresAt, now)) =>
       /\ Len(log') = Len(log) + 1
       /\ log'[Len(log')].ok = FALSE
       /\ log'[Len(log')].error.name = "AuthenticationError"
       /\ log'[Len(log')].error.isError
       /\ log'[Len(log')].error.retryable = "false"
       /\ log'[Len(log')].error.cause = <<>>
       /\ log'[Len(log')].transport = NoTransport
       /\ pc' = "done"
       /\ outcome' = "rejected"
       /\ rejection' = log'[Len(log')].error
       /\ invocations' = invocations
       /\ httpRequests' = httpRequests
       /\ accepted' = accepted
       /\ accessToken' = accessToken
       /\ expiresAt' = expiresAt

C28_ConnectedFollowsLastRequest ==
  lastLifecycle = "disconnect" => ~connected

\* C29: for every retry configuration the client accepts, a retried facade
\* call invokes the provider operation at least once and at most
\* max(1, attempts) times, and a rejection is an error one of those
\* invocations raised, never undefined.
C29_InvokedAtLeastOnce ==
  (pc = "done" /\ retryConfig.enabled /\ WrappedInRetry(op)) =>
    /\ invocations >= 1
    /\ invocations <= (IF retryConfig.attempts > 1 THEN retryConfig.attempts ELSE 1)
    /\ outcome = "rejected" =>
         /\ rejection # NoError
         /\ \E i \in DOMAIN log : ~log[i].ok /\ log[i].error = rejection
====
